---- MODULE Spec2Model ----
(***************************************************************************)
(* Scale calibration, spatial measurement and multi-image fusion of the    *)
(* VisionEstate backend (code/backend/analyzer.py, code/backend/main.py).  *)
(*                                                                         *)
(* Python floats are modelled as exact rationals [n, d] in lowest terms    *)
(* (d > 0); None is the string "None"; a Python dict is a record, and a    *)
(* key the code never writes is a field the record does not have.          *)
(***************************************************************************)
EXTENDS Integers, Sequences, FiniteSets, TLC

VARIABLES pc, handler, files, analysed, all_spatial, room_types,
          per_image_results, calibration_status, fusion, response,
          properties, verification_requests, property_logs, legal_documents

vars == <<pc, handler, files, analysed, all_spatial, room_types,
          per_image_results, calibration_status, fusion, response,
          properties, verification_requests, property_logs,
          legal_documents>>

\* None where a string is expected, where a float is expected, where a list is
None == "None"
NoneF == [n |-> 0, d |-> 0]
NoneL == <<>>

\* ------------------------------------------------------------------------
\* Exact arithmetic standing for Python float arithmetic
\* ------------------------------------------------------------------------
Abs(x) == IF x < 0 THEN -x ELSE x

RECURSIVE GCD(_, _)
GCD(a, b) == IF b = 0 THEN a ELSE GCD(b, a % b)

Rat(n, d) ==
    LET g == GCD(Abs(n), Abs(d))
        s == IF d < 0 THEN -1 ELSE 1
    IN  IF n = 0 THEN [n |-> 0, d |-> 1]
        ELSE [n |-> s * (n \div g), d |-> s * (d \div g)]

R(i) == [n |-> i, d |-> 1]
Zero == R(0)

RAdd(a, b) ==
    LET g == GCD(a.d, b.d)
    IN  Rat(a.n * (b.d \div g) + b.n * (a.d \div g), (a.d \div g) * b.d)

RSub(a, b) == RAdd(a, [n |-> -b.n, d |-> b.d])

RMul(a, b) ==
    LET x == Rat(a.n, b.d)
        y == Rat(b.n, a.d)
    IN  [n |-> x.n * y.n, d |-> x.d * y.d]

\* a / b for b # 0 (a Python float division by 0.0 raises ZeroDivisionError;
\* every caller decides that case before dividing)
RDiv(a, b) == RMul(a, Rat(b.d, b.n))

RLess(a, b) == a.n * b.d < b.n * a.d
RLeq(a, b) == a.n * b.d <= b.n * a.d
RMax(a, b) == IF RLess(a, b) THEN b ELSE a
RMin(a, b) == IF RLess(b, a) THEN b ELSE a
RAbs(a) == [n |-> Abs(a.n), d |-> a.d]
RPos(a) == a.n > 0

\* round(x, k) for k decimal places, ties to even, with scale = 10^k
RoundTo(x, scale) ==
    LET num == x.n * scale
        q == num \div x.d
        r == num % x.d
        up == IF 2 * r > x.d THEN 1
              ELSE IF 2 * r < x.d THEN 0
              ELSE q % 2
    IN  Rat(q + up, scale)

Round1(x) == RoundTo(x, 10)
Round2(x) == RoundTo(x, 100)

\* Python's max(range(n), key=f): the first index whose key is not exceeded
RECURSIVE ArgMaxFrom(_, _, _, _)
ArgMaxFrom(keys, i, best, n) ==
    IF i > n THEN best
    ELSE IF RLess(keys[best], keys[i]) THEN ArgMaxFrom(keys, i + 1, i, n)
    ELSE ArgMaxFrom(keys, i + 1, best, n)

ArgMax(keys) == ArgMaxFrom(keys, 2, 1, Len(keys))

\* dict.get(key, default)
Get(dict, key, default) == IF key \in DOMAIN dict THEN dict[key] ELSE default

\* ------------------------------------------------------------------------
\* analyzer.py: the reference-object catalog (metres as rationals)
\* ------------------------------------------------------------------------
REFERENCE_OBJECTS == <<
    [name |-> "bed",          width |-> Rat(19, 10),  height |-> Rat(1, 2),    priority |-> 1],
    [name |-> "couch",        width |-> R(2),         height |-> Rat(85, 100), priority |-> 2],
    [name |-> "sofa",         width |-> R(2),         height |-> Rat(85, 100), priority |-> 2],
    [name |-> "chair",        width |-> Rat(45, 100), height |-> Rat(9, 10),   priority |-> 4],
    [name |-> "dining table", width |-> Rat(12, 10),  height |-> Rat(75, 100), priority |-> 3],
    [name |-> "refrigerator", width |-> Rat(7, 10),   height |-> Rat(17, 10),  priority |-> 2],
    [name |-> "tv",           width |-> Rat(12, 10),  height |-> Rat(7, 10),   priority |-> 5],
    [name |-> "door",         width |-> Rat(9, 10),   height |-> Rat(21, 10),  priority |-> 1],
    [name |-> "toilet",       width |-> Rat(4, 10),   height |-> Rat(4, 10),   priority |-> 3],
    [name |-> "oven",         width |-> Rat(6, 10),   height |-> Rat(9, 10),   priority |-> 4],
    [name |-> "sink",         width |-> Rat(6, 10),   height |-> Rat(2, 10),   priority |-> 5] >>

\* label.lower() on the labels the detector is given here
Lower(label) ==
    CASE label = "Door" -> "door"
      [] label = "Sofa Bed" -> "sofa bed"
      [] OTHER -> label

\* ref_name in label: is the catalog key a substring of the lowered label
IsSubstring(ref_name, label) ==
    CASE label = "bed" -> ref_name = "bed"
      [] label = "door" -> ref_name = "door"
      [] label = "chair" -> ref_name = "chair"
      [] label = "couch" -> ref_name = "couch"
      [] label = "tv" -> ref_name = "tv"
      [] label = "toilet" -> ref_name = "toilet"
      [] label = "sofa bed" -> ref_name \in {"sofa", "bed"}
      [] OTHER -> FALSE

\* for ref_name, ref_data in REFERENCE_OBJECTS.items(): if ref_name in label: ... break
\* the index of the first catalog entry (dict order) that matches, 0 when none
FirstMatch(label) ==
    LET hits == {i \in 1..Len(REFERENCE_OBJECTS) :
                    IsSubstring(REFERENCE_OBJECTS[i].name, label)}
    IN  IF hits = {} THEN 0
        ELSE CHOOSE i \in hits : \A j \in hits : i <= j

NoReference == [raised |-> None, best_reference |-> None, best_priority |-> 999,
                best_m_per_px |-> NoneF]

\* if bbox_width_px > bbox_height_px: the width is the divisor, else the height
ChosenAxisPx(bbox) == IF bbox[3] > bbox[4] THEN bbox[3] ELSE bbox[4]

\* the iteration with the catalog width taken whatever the box's orientation
EstimateStepWidthOnly(st, det) ==
    LET label == Lower(Get(det, "label", ""))
        bbox == Get(det, "bbox", <<>>)
        m == FirstMatch(label)
        ref == REFERENCE_OBJECTS[m]
    IN  IF st.raised # None THEN st
        ELSE IF Len(bbox) < 4 THEN st
        ELSE IF m = 0 THEN st
        ELSE IF bbox[3] = 0 THEN [st EXCEPT !.raised = "ZeroDivisionError"]
        ELSE IF ref.priority < st.best_priority
             THEN [raised |-> None, best_reference |-> ref.name,
                   best_priority |-> ref.priority,
                   best_m_per_px |-> RDiv(ref.width, R(bbox[3]))]
        ELSE st

\* the iteration with a later detection of equal rank replacing the earlier one
EstimateStepLastOfRank(st, det) ==
    LET label == Lower(Get(det, "label", ""))
        bbox == Get(det, "bbox", <<>>)
        m == FirstMatch(label)
        ref == REFERENCE_OBJECTS[m]
        px == ChosenAxisPx(bbox)
        real == IF bbox[3] > bbox[4] THEN ref.width ELSE ref.height
    IN  IF st.raised # None THEN st
        ELSE IF Len(bbox) < 4 THEN st
        ELSE IF m = 0 THEN st
        ELSE IF px = 0 THEN [st EXCEPT !.raised = "ZeroDivisionError"]
        ELSE IF ref.priority <= st.best_priority
             THEN [raised |-> None, best_reference |-> ref.name,
                   best_priority |-> ref.priority,
                   best_m_per_px |-> RDiv(real, R(px))]
        ELSE st

\* one iteration of `for det in detections` (analyzer.py 224-250); float / 0.0 raises
EstimateStep(st, det) ==
    LET label == Lower(Get(det, "label", ""))
        bbox == Get(det, "bbox", <<>>)
        m == FirstMatch(label)
        ref == REFERENCE_OBJECTS[m]
        px == ChosenAxisPx(bbox)
        real == IF bbox[3] > bbox[4] THEN ref.width ELSE ref.height
    IN  IF st.raised # None THEN st
        ELSE IF Len(bbox) < 4 THEN st
        ELSE IF m = 0 THEN st
        ELSE IF px = 0 THEN [st EXCEPT !.raised = "ZeroDivisionError"]
        ELSE IF ref.priority < st.best_priority
             THEN [raised |-> None, best_reference |-> ref.name,
                   best_priority |-> ref.priority,
                   best_m_per_px |-> RDiv(real, R(px))]
        ELSE st

RECURSIVE EstimateLoop(_, _)
EstimateLoop(st, detections) ==
    IF detections = <<>> THEN st
    ELSE EstimateLoop(EstimateStep(st, Head(detections)), Tail(detections))

\* the confidence one rank too low: 1.0 - best_priority * 0.1
ReferenceConfidenceRankOff(priority) == RMax(Rat(1, 2), RSub(R(1), Rat(priority, 10)))

\* confidence = max(0.5, 1.0 - (best_priority - 1) * 0.1)
ReferenceConfidence(priority) == RMax(Rat(1, 2), RSub(R(1), Rat(priority - 1, 10)))

\* estimate_scale_from_reference_objects(detections, img_width, img_height):
\* (m_per_px, reference_object_used, confidence), or the exception it raises
estimate_scale_from_reference_objects(detections) ==
    LET st == EstimateLoop(NoReference, detections)
    IN  IF st.raised # None
        THEN [raised |-> st.raised, m_per_px |-> NoneF, reference |-> None,
              confidence |-> Zero]
        ELSE IF st.best_m_per_px # NoneF
        THEN [raised |-> None, m_per_px |-> st.best_m_per_px,
              reference |-> st.best_reference,
              confidence |-> ReferenceConfidence(st.best_priority)]
        ELSE [raised |-> None, m_per_px |-> NoneF, reference |-> None,
              confidence |-> Zero]

\* ------------------------------------------------------------------------
\* analyzer.py: find_a4_calibration.  The OpenCV measurements of a contour
\* (contourArea, approxPolyDP vertex count, minAreaRect sides, mean L, mean
\* S, convex-hull area, boundingRect) are inputs; the gates, the scoring
\* and the selection are the code's.  Thresholds on floats are compared
\* exactly; the score is kept in millionths (weights in hundredths times
\* factors in ten-thousandths, each factor truncated).
\* ------------------------------------------------------------------------
Max2(a, b) == IF a > b THEN a ELSE b
Min2(a, b) == IF a < b THEN a ELSE b

\* the primary pass without its saturation gate
PrimaryGateAnySaturation(c, h_img, w_img) ==
    /\ ~(1000 * c.area < 3 * h_img * w_img \/ 10 * c.area > 3 * h_img * w_img)
    /\ ~(c.vertices < 4 \/ c.vertices > 6)
    /\ Min2(c.rw, c.rh) # 0
    /\ ~(10 * Max2(c.rw, c.rh) < 12 * Min2(c.rw, c.rh)
         \/ 10 * Max2(c.rw, c.rh) > 17 * Min2(c.rw, c.rh))
    /\ ~(c.mean_val < 140)
    /\ ~(IF c.hull_area > 0 THEN 4 * c.area < 3 * c.hull_area ELSE TRUE)

\* the `continue` gates of the primary pass (lines 85-138)
PrimaryGate(c, h_img, w_img) ==
    /\ ~(1000 * c.area < 3 * h_img * w_img \/ 10 * c.area > 3 * h_img * w_img)
    /\ ~(c.vertices < 4 \/ c.vertices > 6)
    /\ Min2(c.rw, c.rh) # 0
    /\ ~(10 * Max2(c.rw, c.rh) < 12 * Min2(c.rw, c.rh)
         \/ 10 * Max2(c.rw, c.rh) > 17 * Min2(c.rw, c.rh))
    /\ ~(c.mean_val < 140)
    /\ ~(c.mean_sat > 40)
    /\ ~(IF c.hull_area > 0 THEN 4 * c.area < 3 * c.hull_area ELSE TRUE)

\* total_score (lines 141-151), in millionths
TotalScore(c, h_img, w_img) ==
    LET mx == Max2(c.rw, c.rh)
        mn == Min2(c.rw, c.rh)
        aspect_score == 10000 - (Abs(1000 * mx - 1414 * mn) * 10000) \div (1414 * mn)
        brightness_score == Min2((c.mean_val * 10000) \div 255, 10000)
        solidity_score == (c.area * 10000) \div c.hull_area
        area_score == Min2((c.area * 10000) \div ((h_img * w_img) \div 10), 10000)
        saturation_score == 10000 - c.mean_sat * 100
    IN  aspect_score * 35 + brightness_score * 25 + solidity_score * 20
        + saturation_score * 15 + area_score * 5

\* the fallback pass without its area condition
FallbackGateAnyArea(c, h_img, w_img) ==
    /\ c.vertices >= 4
    /\ Min2(c.rw, c.rh) > 0
    /\ 10 * Max2(c.rw, c.rh) >= 12 * Min2(c.rw, c.rh)
    /\ 10 * Max2(c.rw, c.rh) <= 17 * Min2(c.rw, c.rh)

\* the fallback pass's conditions (lines 168-179)
FallbackGate(c, h_img, w_img) ==
    /\ 1000 * c.area > 3 * h_img * w_img
    /\ c.vertices >= 4
    /\ Min2(c.rw, c.rh) > 0
    /\ 10 * Max2(c.rw, c.rh) >= 12 * Min2(c.rw, c.rh)
    /\ 10 * Max2(c.rw, c.rh) <= 17 * Min2(c.rw, c.rh)

RECURSIVE PrimaryCandidates(_, _, _)
PrimaryCandidates(contours, h_img, w_img) ==
    IF contours = <<>> THEN <<>>
    ELSE LET c == Head(contours)
             rest == PrimaryCandidates(Tail(contours), h_img, w_img)
         IN  IF PrimaryGate(c, h_img, w_img)
             THEN <<[score |-> TotalScore(c, h_img, w_img), contour |-> c]>> \o rest
             ELSE rest

RECURSIVE FallbackCandidates(_, _, _)
FallbackCandidates(contours, h_img, w_img) ==
    IF contours = <<>> THEN <<>>
    ELSE LET c == Head(contours)
             rest == FallbackCandidates(Tail(contours), h_img, w_img)
         IN  IF FallbackGate(c, h_img, w_img)
             THEN <<[score |-> 500000, contour |-> c]>> \o rest
             ELSE rest

\* candidates after both passes: the fallback runs only `if not candidates`
Candidates(img) ==
    LET primary == PrimaryCandidates(img.contours, img.h, img.w)
    IN  IF primary = <<>>
        THEN FallbackCandidates(img.bright_contours, img.h, img.w)
        ELSE primary

\* the Locator with the last of the best-scoring candidates taken
find_a4_calibration_last(img) ==
    LET candidates == Candidates(img)
        n == Len(candidates)
        best == candidates[n + 1 - ArgMax([i \in 1..n |-> R(candidates[n + 1 - i].score)])]
        long_side_px == Max2(best.contour.rw, best.contour.rh)
    IN  IF candidates = <<>>
        THEN [m_per_px |-> NoneF, bbox |-> NoneL]
        ELSE [m_per_px |-> Rat(297, 1000 * long_side_px), bbox |-> best.contour.bbox]

\* find_a4_calibration(img): (m_per_px, bbox) or (None, None)
find_a4_calibration(img) ==
    LET candidates == Candidates(img)
        best == candidates[ArgMax([i \in 1..Len(candidates) |-> R(candidates[i].score)])]
        long_side_px == Max2(best.contour.rw, best.contour.rh)
    IN  IF candidates = <<>>
        THEN [m_per_px |-> NoneF, bbox |-> NoneL]
        ELSE [m_per_px |-> Rat(297, 1000 * long_side_px), bbox |-> best.contour.bbox]

\* ------------------------------------------------------------------------
\* analyzer.py: detect_defects.  An image is what cv2.imread and the three
\* models return for it: readable, h, w, the classifier's best index and
\* probability, the contours of the two Locator passes, the object boxes
\* (or an exception of the object model) and the crack boxes, as xyxy.
\* ------------------------------------------------------------------------
ROOM_TYPE_LABELS == <<"a bedroom", "a living room", "a kitchen", "a bathroom", "an office">>

\* room_type_raw.replace("a ", "").replace("an ", "").strip().title()
RoomTypeTitle(room_type_raw) ==
    CASE room_type_raw = "a bedroom" -> "Bedroom"
      [] room_type_raw = "a living room" -> "Living Room"
      [] room_type_raw = "a kitchen" -> "Kitchen"
      [] room_type_raw = "a bathroom" -> "Bathroom"
      [] room_type_raw = "an office" -> "Office"

\* the dict built per object box (lines 326-333): bbox = [x1, y1, x2-x1, y2-y1]
ObjectDet(box) ==
    [label |-> box.label, confidence |-> box.conf,
     bbox |-> <<box.xyxy[1], box.xyxy[2], box.xyxy[3] - box.xyxy[1], box.xyxy[4] - box.xyxy[2]>>,
     isCrack |-> FALSE, isCalibration |-> FALSE]

\* the dict built per crack box (lines 365-371)
CrackDet(box) ==
    [label |-> "Structural Crack", confidence |-> box.conf,
     bbox |-> <<box.xyxy[1], box.xyxy[2], box.xyxy[3] - box.xyxy[1], box.xyxy[4] - box.xyxy[2]>>,
     isCrack |-> TRUE, isCalibration |-> FALSE]

SeqMap(Op(_), s) == [i \in 1..Len(s) |-> Op(s[i])]

\* total_crack_pixel_area += bw * bh
RECURSIVE TotalCrackPixelArea(_)
TotalCrackPixelArea(boxes) ==
    IF boxes = <<>> THEN 0
    ELSE (Head(boxes).xyxy[3] - Head(boxes).xyxy[1]) * (Head(boxes).xyxy[4] - Head(boxes).xyxy[2])
         + TotalCrackPixelArea(Tail(boxes))

\* max_crack_dim_px = max(max_crack_dim_px, bw, bh), from 0
RECURSIVE MaxCrackDimPx(_)
MaxCrackDimPx(boxes) ==
    IF boxes = <<>> THEN 0
    ELSE Max2(Max2(Head(boxes).xyxy[3] - Head(boxes).xyxy[1],
                   Head(boxes).xyxy[4] - Head(boxes).xyxy[2]),
              MaxCrackDimPx(Tail(boxes)))

\* a measurement that starts with an area_confidence of 90 percent
BaseSpatialWithConfidence(room_type, room_confidence, reference_object) ==
    [width |-> Zero, height |-> Zero, length |-> Zero, area |-> Zero,
     room_type |-> room_type,
     room_confidence |-> Round1(RMul(room_confidence, R(100))),
     reference_object |-> reference_object,
     area_confidence |-> R(90)]

\* a measurement whose area_confidence tells whether a reference object gave the scale
BaseSpatialByReference(room_type, room_confidence, reference_object) ==
    [width |-> Zero, height |-> Zero, length |-> Zero, area |-> Zero,
     room_type |-> room_type,
     room_confidence |-> Round1(RMul(room_confidence, R(100))),
     reference_object |-> reference_object,
     area_confidence |-> IF reference_object # None THEN Rat(1, 2) ELSE Zero]

\* spatial_data as initialised (lines 376-384)
BaseSpatial(room_type, room_confidence, reference_object) ==
    [width |-> Zero, height |-> Zero, length |-> Zero, area |-> Zero,
     room_type |-> room_type,
     room_confidence |-> Round1(RMul(room_confidence, R(100))),
     reference_object |-> reference_object]

\* total_crack_pixel_area / max_crack_dim_px if max_crack_dim_px > 0 else 0
CrackWidthPx(total_crack_pixel_area, max_crack_dim_px) ==
    IF max_crack_dim_px > 0 THEN Rat(total_crack_pixel_area, max_crack_dim_px) ELSE Zero

\* lines 388-393: real world crack measurements
CrackMeasurement(base, width_px, total_crack_pixel_area, max_crack_dim_px, m_per_px) ==
    [base EXCEPT !.area = RMul(R(total_crack_pixel_area), RMul(m_per_px, m_per_px)),
                 !.length = RMul(R(max_crack_dim_px), m_per_px),
                 !.width = RMul(width_px, m_per_px),
                 !.height = RMul(width_px, m_per_px)]

FloorEstimateNoForeshortening(base, m_per_px, w_orig, h_orig) ==
    [base EXCEPT !.area = RMul(RMul(R(w_orig * h_orig), Rat(6, 10)), RMul(m_per_px, m_per_px)),
                 !.width = RMul(R(w_orig), m_per_px),
                 !.length = RMul(R(h_orig), m_per_px),
                 !.height = Rat(27, 10)]

\* lines 400-405: floor area estimation (60% of the image)
FloorEstimate(base, m_per_px, w_orig, h_orig) ==
    [base EXCEPT !.area = RMul(RMul(R(w_orig * h_orig), Rat(6, 10)), RMul(m_per_px, m_per_px)),
                 !.width = RMul(R(w_orig), m_per_px),
                 !.length = RMul(RMul(R(h_orig), m_per_px), Rat(8, 10)),
                 !.height = Rat(27, 10)]

\* lines 410-414: fallback to pixel measurements
PixelMeasurement(base, width_px, total_crack_pixel_area, max_crack_dim_px) ==
    [base EXCEPT !.area = R(total_crack_pixel_area),
                 !.length = R(max_crack_dim_px),
                 !.width = width_px]

\* lines 386-415: which of the four measurements is taken
SpatialPath(base, is_calibrated, m_per_px, total_crack_pixel_area, max_crack_dim_px, w_orig, h_orig) ==
    IF is_calibrated
    THEN IF total_crack_pixel_area > 0
         THEN CrackMeasurement(base, CrackWidthPx(total_crack_pixel_area, max_crack_dim_px),
                               total_crack_pixel_area, max_crack_dim_px, m_per_px)
         ELSE FloorEstimate(base, m_per_px, w_orig, h_orig)
    ELSE IF total_crack_pixel_area > 0
    THEN PixelMeasurement(base, CrackWidthPx(total_crack_pixel_area, max_crack_dim_px),
                          total_crack_pixel_area, max_crack_dim_px)
    ELSE base

\* section 5 of detect_defects (lines 376-415): the measurement record
SpatialData(room_type, room_confidence, reference_object, is_calibrated, m_per_px, total_crack_pixel_area, max_crack_dim_px, w_orig, h_orig) ==
    SpatialPath(BaseSpatial(room_type, room_confidence, reference_object),
                is_calibrated, m_per_px, total_crack_pixel_area, max_crack_dim_px,
                w_orig, h_orig)

Unreadable ==
    [raised |-> None, all_results |-> <<>>,
     spatial_data |-> [width |-> Zero, height |-> Zero, length |-> Zero, area |-> Zero,
                       room_type |-> "unknown", room_confidence |-> Zero,
                       reference_object |-> None],
     is_calibrated |-> FALSE, size |-> <<0, 0>>]

\* lines 292-317 and 340-348: the A4 entry, the room-type entry, the scale
\* and the reference object, given the Locator's and the Estimator's results
A4ResultAlways(a4) ==
    <<[label |-> "A4 Reference", confidence |-> R(1), bbox |-> a4.bbox,
       isCrack |-> FALSE, isCalibration |-> TRUE]>>

A4Result(a4) ==
    IF a4.m_per_px # NoneF
    THEN <<[label |-> "A4 Reference", confidence |-> R(1), bbox |-> a4.bbox,
            isCrack |-> FALSE, isCalibration |-> TRUE]>>
    ELSE <<>>

RoomResult(room_type, room_confidence) ==
    <<[label |-> "Room Type", room_type |-> room_type, confidence |-> room_confidence,
       isRoomType |-> TRUE]>>

\* object_detections: what the try block appended before an exception, if any
ObjectDetections(img) == IF img.obj_raises THEN <<>> ELSE SeqMap(ObjectDet, img.objects)

NotInvoked == [raised |-> None, m_per_px |-> NoneF, reference |-> None, confidence |-> Zero]

\* the Estimator called whatever the Locator returned
ReferenceAlways(a4, object_detections) ==
    estimate_scale_from_reference_objects(object_detections)

\* if not is_calibrated: the Estimator is called on the object detections
ReferenceFallback(a4, object_detections) ==
    IF a4.m_per_px # NoneF THEN NotInvoked
    ELSE estimate_scale_from_reference_objects(object_detections)

\* a synthesis that counts the first object box among the crack pixels
SynthesizeWithObjects(img, a4, object_detections, ref, room_type, m_per_px) ==
    IF ref.raised # None
    THEN [raised |-> ref.raised, all_results |-> <<>>, spatial_data |-> [x |-> 0],
          is_calibrated |-> FALSE, size |-> <<0, 0>>]
    ELSE [raised |-> None,
          all_results |-> A4Result(a4) \o RoomResult(room_type, img.prob)
                          \o object_detections \o SeqMap(CrackDet, img.cracks),
          spatial_data |-> SpatialData(room_type, img.prob, ref.reference,
                                       m_per_px # NoneF, m_per_px,
                                       TotalCrackPixelArea(img.cracks)
                                       + (IF object_detections = <<>> THEN 0
                                          ELSE object_detections[1].bbox[3]),
                                       MaxCrackDimPx(img.cracks), img.w, img.h),
          is_calibrated |-> m_per_px # NoneF, size |-> <<img.h, img.w>>]

\* the tuple detect_defects returns once the scale is settled
Synthesize(img, a4, object_detections, ref, room_type, m_per_px) ==
    IF ref.raised # None
    THEN [raised |-> ref.raised, all_results |-> <<>>, spatial_data |-> [x |-> 0],
          is_calibrated |-> FALSE, size |-> <<0, 0>>]
    ELSE [raised |-> None,
          all_results |-> A4Result(a4) \o RoomResult(room_type, img.prob)
                          \o object_detections \o SeqMap(CrackDet, img.cracks),
          spatial_data |-> SpatialData(room_type, img.prob, ref.reference,
                                       m_per_px # NoneF, m_per_px,
                                       TotalCrackPixelArea(img.cracks),
                                       MaxCrackDimPx(img.cracks), img.w, img.h),
          is_calibrated |-> m_per_px # NoneF, size |-> <<img.h, img.w>>]

Calibrated(img, a4, object_detections, ref) ==
    Synthesize(img, a4, object_detections, ref,
               RoomTypeTitle(ROOM_TYPE_LABELS[img.best_idx]),
               IF a4.m_per_px # NoneF THEN a4.m_per_px ELSE ref.m_per_px)

Located(img, a4, object_detections) ==
    Calibrated(img, a4, object_detections, ReferenceFallback(a4, object_detections))

\* detect_defects(img_path): (all_results, spatial_data, is_calibrated, [h, w]),
\* or the exception that leaves it
detect_defects(img) ==
    IF ~img.readable THEN Unreadable
    ELSE Located(img, find_a4_calibration(img), ObjectDetections(img))

\* ------------------------------------------------------------------------
\* main.py: the fusion of the per-image measurements
\* ------------------------------------------------------------------------
\* room_types.append({"type": spatial.get("room_type", "unknown"),
\*                    "confidence": spatial.get("room_confidence", 0)})
RoomTypeEntry(spatial) ==
    [type |-> Get(spatial, "room_type", "unknown"),
     confidence |-> Get(spatial, "room_confidence", Zero)]

\* the keys of room_votes in insertion order: each label at its first vote
RECURSIVE VoteKeys(_, _)
VoteKeys(rts, seen) ==
    IF rts = <<>> THEN <<>>
    ELSE IF Head(rts).type \in seen THEN VoteKeys(Tail(rts), seen)
    ELSE <<Head(rts).type>> \o VoteKeys(Tail(rts), seen \cup {Head(rts).type})

\* room_votes[room_type] += conf, over the whole list
RECURSIVE VoteTotal(_, _)
VoteTotal(rts, label) ==
    IF rts = <<>> THEN Zero
    ELSE IF Head(rts).type = label
         THEN RAdd(Head(rts).confidence, VoteTotal(Tail(rts), label))
         ELSE VoteTotal(Tail(rts), label)

\* the number of entries voting for label
RECURSIVE Voters(_, _)
Voters(rts, label) ==
    IF rts = <<>> THEN 0
    ELSE (IF Head(rts).type = label THEN 1 ELSE 0) + Voters(Tail(rts), label)

\* the vote with the winner's total averaged over its own voters
RoomVoteByVoters(rts) ==
    LET keys == VoteKeys(rts, {})
        totals == [i \in 1..Len(keys) |-> VoteTotal(rts, keys[i])]
        best == ArgMax(totals)
    IN  IF rts = <<>>
        THEN [best_room_type |-> "unknown", room_confidence |-> Zero]
        ELSE [best_room_type |-> keys[best],
              room_confidence |-> RDiv(totals[best], R(Voters(rts, keys[best])))]

\* max(room_votes, key=room_votes.get) and room_votes[best] / len(room_types)
RoomVote(rts) ==
    LET keys == VoteKeys(rts, {})
        totals == [i \in 1..Len(keys) |-> VoteTotal(rts, keys[i])]
        best == ArgMax(totals)
    IN  IF rts = <<>>
        THEN [best_room_type |-> "unknown", room_confidence |-> Zero]
        ELSE [best_room_type |-> keys[best],
              room_confidence |-> RDiv(totals[best], R(Len(rts)))]

\* best_idx = max(range(len(all_spatial)), key=lambda i: all_spatial[i].get("area_confidence", 0))
BestIdx(spatials) ==
    ArgMax([i \in 1..Len(spatials) |-> Get(spatials[i], "area_confidence", Zero)])

\* reconstruct_room, lines 97-143: the handler's locals at its return
ReconstructRoomFuse(spatials, rts) ==
    LET best_idx == BestIdx(spatials)
        best_spatial == spatials[best_idx]
        vote == RoomVote(rts)
        area_confidence == Get(best_spatial, "area_confidence", Zero)
    IN  IF spatials # <<>>
        THEN [raised |-> None, best_idx |-> best_idx,
              fused_spatial |->
                 [width |-> Get(best_spatial, "width", Zero),
                  height |-> Get(best_spatial, "height", Rat(27, 10)),
                  length |-> Get(best_spatial, "length", Zero),
                  area |-> Round2(Get(best_spatial, "area", Zero)),
                  area_confidence |-> area_confidence,
                  estimation_method |-> Get(best_spatial, "estimation_method", "unknown"),
                  reference_object |-> Get(best_spatial, "reference_object", None)],
              best_room_type |-> vote.best_room_type,
              room_confidence |-> vote.room_confidence,
              overall_confidence |->
                 RDiv(RAdd(area_confidence, vote.room_confidence), R(2))]
        ELSE [raised |-> None, best_idx |-> 0,
              fused_spatial |-> [width |-> Zero, height |-> Zero, length |-> Zero,
                                 area |-> Zero],
              best_room_type |-> "unknown", room_confidence |-> Zero,
              overall_confidence |-> Zero]

RECURSIVE MaxOf(_, _)
MaxOf(spatials, key) ==
    IF Len(spatials) = 1 THEN Head(spatials)[key]
    ELSE RMax(Head(spatials)[key], MaxOf(Tail(spatials), key))

\* the second reconstruct_room ("legacy"), lines 1035-1065
LegacyFuse(spatials, rts) ==
    LET best_idx == BestIdx(spatials)
        best_spatial == spatials[best_idx]
        vote == RoomVote(rts)
        area_confidence == Get(best_spatial, "area_confidence", Zero)
    IN  IF spatials = <<>>
        THEN [raised |-> "ValueError"]
        ELSE [raised |-> None, best_idx |-> best_idx,
              fused_spatial |->
                 [width |-> MaxOf(spatials, "width"),
                  height |-> MaxOf(spatials, "height"),
                  length |-> MaxOf(spatials, "length"),
                  area |-> Round2(best_spatial.area),
                  area_confidence |-> area_confidence,
                  estimation_method |-> Get(best_spatial, "estimation_method", "unknown"),
                  reference_object |-> Get(best_spatial, "reference_object", None)],
              best_room_type |-> vote.best_room_type,
              room_confidence |-> vote.room_confidence,
              overall_confidence |->
                 RDiv(RAdd(area_confidence, vote.room_confidence), R(2))]

\* the dict both reconstruct_room handlers return (lines 135-143, 1067-1075)
RoomResponse(fused, results, calibrated) ==
    [analysis_results |-> results,
     spatial_data |-> fused.fused_spatial,
     room_type |-> fused.best_room_type,
     room_confidence |-> Round1(fused.room_confidence),
     overall_confidence |-> Round1(fused.overall_confidence),
     is_calibrated |-> calibrated,
     needs_user_confirmation |-> RLess(fused.overall_confidence, R(70))]

\* analyze_property, lines 361-392: the handler's locals after the fusion
AnalyzePropertyFuse(spatials, rts) ==
    LET best_idx == BestIdx(spatials)
        best_spatial == spatials[best_idx]
        vote == RoomVote(rts)
    IN  IF spatials # <<>>
        THEN [raised |-> None, best_idx |-> best_idx,
              estimated_area |-> Get(best_spatial, "area", Zero),
              area_confidence |-> Get(best_spatial, "area_confidence", Zero),
              estimation_method |-> Get(best_spatial, "estimation_method", "unknown"),
              reference_object |-> Get(best_spatial, "reference_object", None),
              best_room_type |-> vote.best_room_type,
              room_confidence |-> vote.room_confidence]
        ELSE [raised |-> None, best_idx |-> 0,
              estimated_area |-> Zero, area_confidence |-> Zero,
              estimation_method |-> "none", reference_object |-> None,
              best_room_type |-> "unknown", room_confidence |-> Zero]

\* sum(1 for d in detections if d.get("isCrack", False)) over all images
RECURSIVE CountCracks(_)
CountCracks(detections) ==
    IF detections = <<>> THEN 0
    ELSE (IF Get(Head(detections), "isCrack", FALSE) THEN 1 ELSE 0)
         + CountCracks(Tail(detections))

\* the "analysis" dict analyze_property returns (lines 499-507) and the
\* ai_confidence it stores (line 472)
AnalysisResponse(fused, total_cracks) ==
    [success |-> TRUE,
     estimated_area |-> Round2(fused.estimated_area),
     room_type |-> fused.best_room_type,
     area_confidence |-> Round1(fused.area_confidence),
     room_confidence |-> Round1(RMul(fused.room_confidence, R(100))),
     cracks_detected |-> total_cracks,
     estimation_method |-> fused.estimation_method,
     reference_object |-> fused.reference_object,
     ai_confidence |-> RDiv(RAdd(fused.area_confidence,
                                 RMul(fused.room_confidence, R(100))), R(2)),
     needs_confirmation |-> TRUE]

\* the loop over the files: the results of detect_defects in order, ending
\* with the first one that raises
RECURSIVE AnalyseAll(_)
AnalyseRest(r, imgs) == IF r.raised # None THEN <<r>> ELSE <<r>> \o AnalyseAll(imgs)

AnalyseAll(imgs) ==
    IF imgs = <<>> THEN <<>>
    ELSE AnalyseRest(detect_defects(Head(imgs)), Tail(imgs))

Raised(results) == results # <<>> /\ results[Len(results)].raised # None

SpatialOf(r) == r.spatial_data
ResultOf(r) == [detections |-> r.all_results, img_size |-> r.size]

RECURSIVE Flatten(_)
Flatten(results) ==
    IF results = <<>> THEN <<>>
    ELSE Head(results).all_results \o Flatten(Tail(results))

\* the subsequence of s at the (sorted) positions in idx
RECURSIVE Pick(_, _, _)
Pick(s, idx, i) ==
    IF i > Len(s) THEN <<>>
    ELSE IF i \in idx THEN <<s[i]>> \o Pick(s, idx, i + 1)
    ELSE Pick(s, idx, i + 1)

\* ------------------------------------------------------------------------
\* Inputs
\* ------------------------------------------------------------------------
MaxImages == 2
MaxMeasurements == 3

SeqsUpTo(S, n) == UNION {[1..k -> S] : k \in 0..n}

\* a bright sheet of 297 x 210 px, one of 14 x 10 px, a dim sheet, and a
\* glare patch that only the >200 pass sees
SheetBig == [area |-> 62370, vertices |-> 4, rw |-> 297, rh |-> 210, mean_val |-> 200,
             mean_sat |-> 10, hull_area |-> 62370, bbox |-> <<100, 100, 297, 210>>]
SheetSmall == [area |-> 140, vertices |-> 4, rw |-> 10, rh |-> 14, mean_val |-> 180,
               mean_sat |-> 20, hull_area |-> 140, bbox |-> <<5, 5, 10, 14>>]
SheetDim == [area |-> 62370, vertices |-> 4, rw |-> 297, rh |-> 210, mean_val |-> 120,
             mean_sat |-> 10, hull_area |-> 62370, bbox |-> <<100, 100, 297, 210>>]
Glare == [area |-> 9900, vertices |-> 8, rw |-> 135, rh |-> 99, mean_val |-> 230,
          mean_sat |-> 5, hull_area |-> 12000, bbox |-> <<400, 300, 135, 99>>]

LocatorInputs ==
    {[contours |-> <<>>, bright_contours |-> <<>>],
     [contours |-> <<SheetBig>>, bright_contours |-> <<>>],
     [contours |-> <<SheetSmall>>, bright_contours |-> <<>>],
     [contours |-> <<SheetDim>>, bright_contours |-> <<Glare>>]}

ImageSizes == {[w |-> 1000, h |-> 800], [w |-> 40, h |-> 30]}

Box(label, x1, y1, x2, y2) ==
    [label |-> label, conf |-> Rat(9, 10), xyxy |-> <<x1, y1, x2, y2>>]

ObjectInputs ==
    {[obj_raises |-> FALSE, objects |-> <<>>],
     [obj_raises |-> FALSE, objects |-> <<Box("Door", 100, 50, 400, 750)>>],
     [obj_raises |-> FALSE, objects |-> <<Box("bed", 7, 7, 7, 7)>>],
     [obj_raises |-> FALSE, objects |-> <<Box("person", 0, 0, 9, 30),
                                          Box("chair", 10, 10, 30, 25),
                                          Box("Sofa Bed", 0, 0, 20, 10)>>],
     [obj_raises |-> TRUE, objects |-> <<Box("Door", 100, 50, 400, 750)>>],
     [obj_raises |-> FALSE, objects |-> <<Box("chair", 10, 5, 30, 30)>>],
     [obj_raises |-> FALSE, objects |-> <<Box("Door", 0, 0, 10, 30),
                                          Box("chair", 10, 5, 30, 30)>>],
     [obj_raises |-> FALSE, objects |-> <<Box("bed", 0, 0, 38, 10),
                                          Box("Door", 0, 0, 10, 30)>>]}

CrackInputs ==
    {<<>>,
     <<Box("crack", 3, 3, 13, 7)>>,
     <<Box("crack", 3, 3, 8, 3)>>,
     <<Box("crack", 3, 3, 13, 7), Box("crack", 20, 1, 22, 9)>>,
     <<Box("crack", 4, 4, 4, 4)>>}

RoomInputs == {[best_idx |-> 1, prob |-> Rat(4, 5)],
               [best_idx |-> 3, prob |-> Rat(8614, 10000)]}

Image(size, loc, obj, cracks, room) ==
    [readable |-> TRUE, w |-> size.w, h |-> size.h,
     contours |-> loc.contours, bright_contours |-> loc.bright_contours,
     obj_raises |-> obj.obj_raises, objects |-> obj.objects,
     cracks |-> cracks, best_idx |-> room.best_idx, prob |-> room.prob]

\* the file cv2.imread cannot read
UnreadableImage ==
    [readable |-> FALSE, w |-> 0, h |-> 0, contours |-> <<>>, bright_contours |-> <<>>,
     obj_raises |-> FALSE, objects |-> <<>>, cracks |-> <<>>,
     best_idx |-> 1, prob |-> Zero]

\* every box and contour lies inside the image it was found in
InFrame(img) ==
    /\ \A k \in 1..Len(img.objects) :
          img.objects[k].xyxy[3] <= img.w /\ img.objects[k].xyxy[4] <= img.h
    /\ \A k \in 1..Len(img.cracks) :
          img.cracks[k].xyxy[3] <= img.w /\ img.cracks[k].xyxy[4] <= img.h
    /\ \A k \in 1..Len(img.contours) :
          /\ img.contours[k].bbox[1] + img.contours[k].bbox[3] <= img.w
          /\ img.contours[k].bbox[2] + img.contours[k].bbox[4] <= img.h
    /\ \A k \in 1..Len(img.bright_contours) :
          /\ img.bright_contours[k].bbox[1] + img.bright_contours[k].bbox[3] <= img.w
          /\ img.bright_contours[k].bbox[2] + img.bright_contours[k].bbox[4] <= img.h

AllImages ==
    {img \in {Image(s, l, o, c, r) : s \in ImageSizes, l \in LocatorInputs,
                                     o \in ObjectInputs, c \in CrackInputs,
                                     r \in RoomInputs} : InFrame(img)}
    \cup {UnreadableImage}

\* the images of a batch: a part of AllImages small enough to be combined
BatchImages ==
    {img \in AllImages :
        /\ img.w = 1000
        /\ img.contours \in {<<>>, <<SheetBig>>} /\ img.bright_contours = <<>>
        /\ ~img.obj_raises
        /\ Len(img.objects) <= 1
        /\ Len(img.cracks) <= 1 /\ (img.cracks # <<>> => img.cracks[1].xyxy[3] = 13)
        /\ (img.best_idx = 1 <=> img.objects = <<>>)}
    \cup {UnreadableImage}

\* SpatialMeasurement records handed to the fusion directly: area_confidence
\* in [0,1] where present, room_confidence in percent as detect_defects
\* stores it; MeasD has the keys detect_defects writes and no others
MeasA == [width |-> R(4), height |-> Rat(27, 10), length |-> R(3), area |-> Rat(12346, 1000),
          room_type |-> "Bedroom", room_confidence |-> R(80), reference_object |-> None,
          estimation_method |-> "calibration_target", area_confidence |-> Rat(9, 10)]
MeasB == [width |-> R(5), height |-> R(2), length |-> R(6), area |-> R(30),
          room_type |-> "Kitchen", room_confidence |-> R(30), reference_object |-> "bed",
          estimation_method |-> "reference_object", area_confidence |-> Rat(4, 10)]
MeasC == [width |-> R(2), height |-> R(3), length |-> R(2), area |-> R(4),
          room_type |-> "Bedroom", room_confidence |-> R(60), reference_object |-> None,
          estimation_method |-> "none", area_confidence |-> Rat(6, 10)]
MeasD == [width |-> R(1), height |-> Rat(27, 10), length |-> R(1), area |-> Rat(1, 2),
          room_type |-> "Kitchen", room_confidence |-> R(90), reference_object |-> None]
MeasE == [width |-> R(7), height |-> R(1), length |-> R(1), area |-> R(7),
          room_type |-> "Living Room", room_confidence |-> R(90), reference_object |-> "door",
          estimation_method |-> "reference_object", area_confidence |-> Rat(9, 10)]

Measurements == {MeasA, MeasB, MeasC, MeasD, MeasE}

\* ------------------------------------------------------------------------
\* The database: the rows of one property id
\* ------------------------------------------------------------------------
\* what the seller fills into the form of submit_property
SellerPhone == "9840012345"
SellerAddress == "12 Beach Road"
SellerCity == "Chennai"
SellerState == "Tamil Nadu"

\* a row of the table properties with the defaults of its schema; photos is
\* the variable files
PropertyRow(tier) ==
    [exists |-> TRUE, seller_phone |-> SellerPhone, address |-> SellerAddress,
     city |-> SellerCity, state |-> SellerState, verification_tier |-> tier, verification_status |-> "pending",
     is_verified |-> 0, is_listed |-> 0, admin_approved |-> 0, admin_reviewed |-> 0,
     ai_room_type |-> None]

NoProperty ==
    [exists |-> FALSE, seller_phone |-> None, address |-> None,
     city |-> None, state |-> None, verification_tier |-> None, verification_status |-> None,
     is_verified |-> 0, is_listed |-> 0, admin_approved |-> 0, admin_reviewed |-> 0,
     ai_room_type |-> None]

\* a row of the table verification_requests with the defaults of its schema
RequestRow(tier) ==
    [exists |-> TRUE, tier |-> tier, status |-> "pending", final_verdict |-> None,
     payment_status |-> "pending", admin_approved |-> 0, ai_analysis_complete |-> 0]

NoRequest ==
    [exists |-> FALSE, tier |-> None, status |-> None, final_verdict |-> None,
     payment_status |-> None, admin_approved |-> 0, ai_analysis_complete |-> 0]

\* the tables after init_db; of property_logs the model keeps the action of
\* the latest row an admin handler inserted, of legal_documents the distinct
\* document types of the property
EmptyDatabase ==
    /\ properties = NoProperty
    /\ verification_requests = NoRequest
    /\ property_logs = None
    /\ legal_documents = {}

\* UPDATE ... WHERE id = ? changes the row when there is one
UpdateRow(row, changes) ==
    IF row.exists
    THEN [k \in DOMAIN row |-> IF k \in DOMAIN changes THEN changes[k] ELSE row[k]]
    ELSE row

\* ------------------------------------------------------------------------
\* The handlers
\* ------------------------------------------------------------------------
OkResults(results) ==
    IF Raised(results) THEN SubSeq(results, 1, Len(results) - 1) ELSE results

AnyCalibrated(results) == \E i \in 1..Len(results) : results[i].is_calibrated

Indices(s) == [i \in 1..Len(s) |-> i]

\* what the loop of a handler leaves in its locals
Collect(ok, idx) ==
    /\ analysed' = SubSeq(idx, 1, Len(ok))
    /\ all_spatial' = SeqMap(SpatialOf, ok)
    /\ room_types' = SeqMap(RoomTypeEntry, SeqMap(SpatialOf, ok))
    /\ per_image_results' = SeqMap(ResultOf, ok)
    /\ calibration_status' = AnyCalibrated(ok)

\* the exception leaves the handler: the request fails
Raise(exception) ==
    /\ pc' = "raised"
    /\ fusion' = [raised |-> exception]
    /\ response' = [raised |-> exception]

Return(f, resp) ==
    /\ pc' = "done"
    /\ fusion' = f
    /\ response' = resp

RoomReturn(f) ==
    IF f.raised # None THEN Raise(f.raised)
    ELSE Return(f, RoomResponse(f, per_image_results', calibration_status'))

\* POST /reconstruct-room as served: the first handler registered for the route
ReconstructRoomOn(results) ==
    /\ Collect(OkResults(results), Indices(results))
    /\ IF Raised(results) THEN Raise(results[Len(results)].raised)
       ELSE RoomReturn(ReconstructRoomFuse(all_spatial', room_types'))

ReconstructRoom ==
    /\ pc = "ready"
    /\ handler' = "reconstruct_room"
    /\ ReconstructRoomOn(AnalyseAll(files))
    /\ UNCHANGED <<files, properties, verification_requests, property_logs,
                   legal_documents>>

\* the second definition of reconstruct_room, the one the module name is bound to
ReconstructRoomLegacyOn(results) ==
    /\ Collect(OkResults(results), Indices(results))
    /\ IF Raised(results) THEN Raise(results[Len(results)].raised)
       ELSE RoomReturn(LegacyFuse(all_spatial', room_types'))

ReconstructRoomLegacy ==
    /\ pc = "ready"
    /\ handler' = "reconstruct_room_legacy"
    /\ ReconstructRoomLegacyOn(AnalyseAll(files))
    /\ UNCHANGED <<files, properties, verification_requests, property_logs,
                   legal_documents>>

AnalysisReturn(f, total_cracks) == Return(f, AnalysisResponse(f, total_cracks))

\* POST /properties/{id}/analyze, lines 336-392 and its response: the photos
\* whose path does not exist are skipped
AnalyzePropertyOn(results, idx) ==
    /\ Collect(OkResults(results), idx)
    /\ IF Raised(results) THEN Raise(results[Len(results)].raised)
       ELSE AnalysisReturn(AnalyzePropertyFuse(all_spatial', room_types'),
                           CountCracks(Flatten(results)))

AnalyzeProperty ==
    /\ pc = "ready"
    /\ handler' = "analyze_property"
    /\ \E existing \in SUBSET (1..Len(files)) :
          AnalyzePropertyOn(AnalyseAll(Pick(files, existing, 1)),
                            Pick(Indices(files), existing, 1))
    /\ UNCHANGED <<files, properties, verification_requests, property_logs,
                   legal_documents>>

Init ==
    /\ pc = "ready"
    /\ handler = None
    /\ files \in SeqsUpTo(BatchImages, MaxImages) \ {<<>>}
    /\ analysed = <<>>
    /\ all_spatial = <<>>
    /\ room_types = <<>>
    /\ per_image_results = <<>>
    /\ calibration_status = FALSE
    /\ fusion = [raised |-> None]
    /\ response = [raised |-> None]
    /\ EmptyDatabase

Next == ReconstructRoom \/ ReconstructRoomLegacy \/ AnalyzeProperty

Spec == Init /\ [][Next]_vars

\* one image of any kind per request
InitImage ==
    /\ pc = "ready"
    /\ handler = None
    /\ files \in {<<img>> : img \in AllImages}
    /\ analysed = <<>>
    /\ all_spatial = <<>>
    /\ room_types = <<>>
    /\ per_image_results = <<>>
    /\ calibration_status = FALSE
    /\ fusion = [raised |-> None]
    /\ response = [raised |-> None]
    /\ EmptyDatabase

SpecImage == InitImage /\ [][Next]_vars

\* the fusion alone, on measurement lists given to it
FuseReconstructRoom ==
    /\ pc = "measured"
    /\ pc' = "done"
    /\ handler' = "reconstruct_room"
    /\ fusion' = ReconstructRoomFuse(all_spatial, room_types)
    /\ response' = RoomResponse(fusion', per_image_results, calibration_status)
    /\ UNCHANGED <<files, analysed, all_spatial, room_types, per_image_results,
                   calibration_status, properties, verification_requests,
                   property_logs, legal_documents>>

FuseLegacy ==
    /\ pc = "measured"
    /\ handler' = "reconstruct_room_legacy"
    /\ fusion' = LegacyFuse(all_spatial, room_types)
    /\ IF fusion'.raised # None
       THEN pc' = "raised" /\ response' = [raised |-> fusion'.raised]
       ELSE pc' = "done"
            /\ response' = RoomResponse(fusion', per_image_results, calibration_status)
    /\ UNCHANGED <<files, analysed, all_spatial, room_types, per_image_results,
                   calibration_status, properties, verification_requests,
                   property_logs, legal_documents>>

FuseAnalyzeProperty ==
    /\ pc = "measured"
    /\ pc' = "done"
    /\ handler' = "analyze_property"
    /\ fusion' = AnalyzePropertyFuse(all_spatial, room_types)
    /\ response' = AnalysisResponse(fusion', 0)
    /\ UNCHANGED <<files, analysed, all_spatial, room_types, per_image_results,
                   calibration_status, properties, verification_requests,
                   property_logs, legal_documents>>

InitFuser ==
    /\ pc = "measured"
    /\ handler = None
    /\ files = <<>>
    /\ all_spatial \in SeqsUpTo(Measurements, MaxMeasurements)
    /\ analysed = Indices(all_spatial)
    /\ room_types = SeqMap(RoomTypeEntry, all_spatial)
    /\ per_image_results = <<>>
    /\ calibration_status = FALSE
    /\ fusion = [raised |-> None]
    /\ response = [raised |-> None]
    /\ EmptyDatabase

NextFuser == FuseReconstructRoom \/ FuseLegacy \/ FuseAnalyzeProperty

SpecFuser == InitFuser /\ [][NextFuser]_vars

\* the Estimator alone, on the detection lists given to it
MaxDetections == 3

ReferenceBoxes ==
    {Box("Door", 100, 50, 400, 750), Box("couch", 0, 0, 200, 85),
     Box("toilet", 10, 10, 50, 50), Box("chair", 10, 5, 30, 30),
     Box("tv", 0, 0, 120, 70), Box("person", 0, 0, 90, 300),
     Box("bed", 7, 7, 7, 7)}

EstimatorImages ==
    {Image([w |-> 1000, h |-> 800], [contours |-> <<>>, bright_contours |-> <<>>],
           [obj_raises |-> FALSE, objects |-> o], <<>>,
           [best_idx |-> 1, prob |-> Rat(4, 5)]) :
        o \in SeqsUpTo(ReferenceBoxes, MaxDetections)}

EstimateReturn(r) ==
    IF r.raised # None THEN Raise(r.raised) ELSE Return([raised |-> None], r)

EstimateScale ==
    /\ pc = "ready"
    /\ handler' = "estimate_scale_from_reference_objects"
    /\ EstimateReturn(estimate_scale_from_reference_objects(ObjectDetections(files[1])))
    /\ UNCHANGED <<files, analysed, all_spatial, room_types, per_image_results,
                   calibration_status, properties, verification_requests,
                   property_logs, legal_documents>>

InitEstimator ==
    /\ pc = "ready"
    /\ handler = None
    /\ files \in {<<img>> : img \in EstimatorImages}
    /\ analysed = <<>>
    /\ all_spatial = <<>>
    /\ room_types = <<>>
    /\ per_image_results = <<>>
    /\ calibration_status = FALSE
    /\ fusion = [raised |-> None]
    /\ response = [raised |-> None]
    /\ EmptyDatabase

NextEstimator == EstimateScale

SpecEstimator == InitEstimator /\ [][NextEstimator]_vars

\* the Locator alone, on the contours the two passes are given
MaxContours == 2

Contour(area, vertices, rw, rh, mean_val, mean_sat, hull_area, x, y) ==
    [area |-> area, vertices |-> vertices, rw |-> rw, rh |-> rh, mean_val |-> mean_val,
     mean_sat |-> mean_sat, hull_area |-> hull_area, bbox |-> <<x, y, rw, rh>>]

\* contours of the primary pass on a 1000 x 800 image: two sheets of equal
\* score (420 x 300 and 490 x 350), one on every inclusive limit, and one
\* failing each gate alone
SheetA == Contour(126000, 4, 420, 300, 200, 10, 126000, 0, 0)
SheetB == Contour(171500, 4, 490, 350, 200, 10, 171500, 500, 400)
SheetEdge == Contour(60000, 6, 340, 200, 140, 40, 80000, 20, 20)
TooSmall == Contour(2000, 4, 50, 40, 200, 10, 2000, 30, 30)
TooBig == Contour(252000, 4, 600, 420, 200, 10, 252000, 40, 40)
Triangle == Contour(62370, 3, 297, 210, 200, 10, 62370, 50, 50)
Heptagon == Contour(62370, 7, 297, 210, 200, 10, 62370, 60, 60)
Square == Contour(90000, 4, 300, 300, 200, 10, 90000, 70, 70)
Strip == Contour(80000, 4, 400, 200, 200, 10, 80000, 80, 80)
Dim == Contour(62370, 4, 297, 210, 139, 10, 62370, 90, 90)
Coloured == Contour(62370, 4, 297, 210, 200, 41, 62370, 110, 110)
Hollow == Contour(62370, 4, 297, 210, 200, 10, 90000, 120, 120)

PrimaryContours ==
    {SheetBig, SheetA, SheetB, SheetEdge, TooSmall, TooBig, Triangle, Heptagon, Square,
     Strip, Dim, Coloured, Hollow}

\* contours of the >200 mask: a glare patch, a speck, a triangle and a square
GlareSpeck == Contour(2000, 4, 50, 40, 230, 5, 2000, 600, 100)
GlareTriangle == Contour(9900, 3, 135, 99, 230, 5, 9900, 610, 110)
GlareSquare == Contour(10000, 4, 100, 100, 230, 5, 10000, 620, 120)

BrightInputs == {<<>>, <<Glare>>, <<GlareSpeck>>, <<GlareTriangle>>, <<GlareSquare>>,
                 <<GlareSpeck, Glare>>}

LocatorImages ==
    {Image([w |-> 1000, h |-> 800], [contours |-> c, bright_contours |-> b],
           [obj_raises |-> FALSE, objects |-> <<>>], <<>>,
           [best_idx |-> 1, prob |-> Rat(4, 5)]) :
        c \in SeqsUpTo(PrimaryContours, MaxContours), b \in BrightInputs}

FindA4 ==
    /\ pc = "ready"
    /\ handler' = "find_a4_calibration"
    /\ Return([raised |-> None], find_a4_calibration(files[1]))
    /\ UNCHANGED <<files, analysed, all_spatial, room_types, per_image_results,
                   calibration_status, properties, verification_requests,
                   property_logs, legal_documents>>

InitLocator ==
    /\ pc = "ready"
    /\ handler = None
    /\ files \in {<<img>> : img \in LocatorImages}
    /\ analysed = <<>>
    /\ all_spatial = <<>>
    /\ room_types = <<>>
    /\ per_image_results = <<>>
    /\ calibration_status = FALSE
    /\ fusion = [raised |-> None]
    /\ response = [raised |-> None]
    /\ EmptyDatabase

NextLocator == FindA4

SpecLocator == InitLocator /\ [][NextLocator]_vars

\* ------------------------------------------------------------------------
\* The verification workflow of one property
\* ------------------------------------------------------------------------
\* the members of the enum VerificationTier: VerificationTier(tier) raises
\* ValueError for any other string
VerificationTier == {"standard"}

\* the tiers a seller can send; "basic" is the default of the form
Tiers == {"basic", "standard", "premium"}

\* the photos of one upload: one image without cracks
UploadBatches == {<<img>> : img \in {b \in BatchImages : b.cracks = <<>>}}

\* no request is being served
Idle == pc \in {"ready", "done", "raised"}

Locals == <<analysed, all_spatial, room_types, per_image_results,
            calibration_status, fusion>>

\* the request fails with the exception
Fail(exception) ==
    /\ pc' = "raised"
    /\ response' = [raised |-> exception]
    /\ UNCHANGED Locals

Reply(next_step) ==
    /\ pc' = "done"
    /\ response' = [raised |-> None, success |-> TRUE, next_step |-> next_step]
    /\ UNCHANGED Locals

\* POST /properties/submit: the property row is committed before the
\* verification request is built, so a tier outside the enum leaves the
\* property without a request and answers 500
SubmitPropertyAs(tier) ==
    /\ properties' = PropertyRow(tier)
    /\ files' = <<>>
    /\ IF tier \in VerificationTier
       THEN verification_requests' = RequestRow(tier) /\ Reply("upload_photos")
       ELSE UNCHANGED verification_requests /\ Fail("HTTPException 500")

SubmitProperty ==
    /\ Idle
    /\ ~properties.exists
    /\ handler' = "submit_property"
    /\ \E tier \in Tiers : SubmitPropertyAs(tier)
    /\ UNCHANGED <<property_logs, legal_documents>>

\* POST /properties/{id}/upload-photos
UploadPhotos ==
    /\ Idle
    /\ handler' = "upload_photos"
    /\ IF ~properties.exists
       THEN Fail("HTTPException 404") /\ UNCHANGED files
       ELSE (\E photos \in UploadBatches : files' = photos) /\ Reply("analyze")
    /\ UNCHANGED <<properties, verification_requests, property_logs, legal_documents>>

\* the status both tables are left with: "ai_analyzing" is committed before
\* the loop, "ai_complete" after the fusion
AnalysisStatus(raised) == IF raised THEN "ai_analyzing" ELSE "ai_complete"

\* the second pair of updates (lines 455-497) is reached only without an
\* exception: it stores the fused room type and marks the analysis complete
AnalyzeStored(results, idx) ==
    /\ AnalyzePropertyOn(results, idx)
    /\ properties' = UpdateRow(properties,
                        IF pc' = "raised"
                        THEN [verification_status |-> AnalysisStatus(TRUE)]
                        ELSE [verification_status |-> AnalysisStatus(FALSE),
                              ai_room_type |-> fusion'.best_room_type])
    /\ verification_requests' = UpdateRow(verification_requests,
                        IF pc' = "raised"
                        THEN [status |-> AnalysisStatus(TRUE)]
                        ELSE [status |-> AnalysisStatus(FALSE),
                              ai_analysis_complete |-> 1])

\* POST /properties/{id}/analyze, the whole handler
AnalyzePropertyWorkflow ==
    /\ Idle
    /\ handler' = "analyze_property"
    /\ IF ~properties.exists
       THEN Fail("HTTPException 404") /\ UNCHANGED <<properties, verification_requests>>
       ELSE IF files = <<>>
       THEN Fail("HTTPException 400") /\ UNCHANGED <<properties, verification_requests>>
       ELSE \E existing \in SUBSET (1..Len(files)) :
               AnalyzeStored(AnalyseAll(Pick(files, existing, 1)),
                             Pick(Indices(files), existing, 1))
    /\ UNCHANGED <<files, property_logs, legal_documents>>

\* POST /properties/{id}/confirm-analysis
ConfirmAnalysis ==
    /\ Idle
    /\ handler' = "confirm_analysis"
    /\ IF ~properties.exists
       THEN Fail("HTTPException 404") /\ UNCHANGED <<properties, verification_requests>>
       ELSE IF properties.verification_tier = "basic"
       THEN /\ properties' = UpdateRow(properties,
                   [verification_status |-> "verified", is_verified |-> 1, is_listed |-> 1])
            /\ verification_requests' = UpdateRow(verification_requests,
                   [status |-> "verified", final_verdict |-> "approved",
                    payment_status |-> "free"])
            /\ Reply("listed")
       ELSE /\ properties' = UpdateRow(properties,
                   [verification_status |-> "awaiting_payment"])
            /\ verification_requests' = UpdateRow(verification_requests,
                   [status |-> "awaiting_payment"])
            /\ Reply("payment")
    /\ UNCHANGED <<files, property_logs, legal_documents>>

NextStatus(tier) == IF tier = "standard" THEN "document_review" ELSE "inspector_assigned"
NextStep(tier) == IF tier = "standard" THEN "document_review" ELSE "schedule_inspection"

\* POST /properties/{id}/pay: VerificationTier(tier) is evaluated before any write
ProcessPayment ==
    /\ Idle
    /\ handler' = "process_payment"
    /\ IF ~properties.exists
       THEN Fail("HTTPException 404") /\ UNCHANGED <<properties, verification_requests>>
       ELSE IF properties.verification_tier \notin VerificationTier
       THEN Fail("ValueError") /\ UNCHANGED <<properties, verification_requests>>
       ELSE /\ properties' = UpdateRow(properties,
                   [verification_status |-> NextStatus(properties.verification_tier)])
            /\ verification_requests' = UpdateRow(verification_requests,
                   [status |-> NextStatus(properties.verification_tier),
                    payment_status |-> "completed"])
            /\ Reply(NextStep(properties.verification_tier))
    /\ UNCHANGED <<files, property_logs, legal_documents>>

\* POST /properties/{id}/schedule-inspection: no check that the row exists
ScheduleInspection ==
    /\ Idle
    /\ handler' = "schedule_inspection"
    /\ properties' = UpdateRow(properties, [verification_status |-> "inspection_scheduled"])
    /\ verification_requests' = UpdateRow(verification_requests,
                                          [status |-> "inspection_scheduled"])
    /\ Reply("await_inspection")
    /\ UNCHANGED <<files, property_logs, legal_documents>>

\* what complete_inspection writes through its connection before it logs
InspectedProperty(passed) ==
    IF passed
    THEN UpdateRow(properties,
             [verification_status |-> "verified", is_verified |-> 1, is_listed |-> 1])
    ELSE UpdateRow(properties, [verification_status |-> "rejected"])

InspectedRequest(passed) ==
    IF passed
    THEN UpdateRow(verification_requests, [status |-> "verified", final_verdict |-> "approved"])
    ELSE UpdateRow(verification_requests, [status |-> "rejected", final_verdict |-> "rejected"])

\* log_property_activity inserts through a connection of its own: while the
\* caller's connection holds uncommitted writes the database is locked and the
\* insert raises after the timeout of get_db
log_property_activity(uncommitted) == IF uncommitted THEN "OperationalError" ELSE None

\* POST /properties/{id}/complete-inspection: the log is written between the
\* updates and the commit, so the exception leaves the updates uncommitted
CompleteInspectionAs(passed, logged) ==
    IF logged # None
    THEN Fail(logged) /\ UNCHANGED <<properties, verification_requests>>
    ELSE /\ properties' = InspectedProperty(passed)
         /\ verification_requests' = InspectedRequest(passed)
         /\ Reply("inspected")

CompleteInspection ==
    /\ Idle
    /\ handler' = "complete_inspection"
    /\ \E passed \in BOOLEAN : CompleteInspectionAs(passed, log_property_activity(TRUE))
    /\ UNCHANGED <<files, property_logs, legal_documents>>

\* POST /admin/properties/{id}/approve
ApproveProperty ==
    /\ Idle
    /\ handler' = "approve_property"
    /\ IF ~properties.exists
       THEN Fail("HTTPException 404")
            /\ UNCHANGED <<properties, verification_requests, property_logs>>
       ELSE /\ properties' = UpdateRow(properties,
                   [admin_approved |-> 1, admin_reviewed |-> 1,
                    verification_status |-> "verified", is_verified |-> 1, is_listed |-> 1])
            /\ verification_requests' = UpdateRow(verification_requests,
                   [admin_approved |-> 1, status |-> "verified",
                    final_verdict |-> "approved"])
            /\ property_logs' = "admin_approved"
            /\ Reply("approved")
    /\ UNCHANGED <<files, legal_documents>>

\* POST /admin/properties/{id}/reject
RejectProperty ==
    /\ Idle
    /\ handler' = "reject_property"
    /\ IF ~properties.exists
       THEN Fail("HTTPException 404")
            /\ UNCHANGED <<properties, verification_requests, property_logs>>
       ELSE /\ properties' = UpdateRow(properties,
                   [admin_approved |-> 0, admin_reviewed |-> 1,
                    verification_status |-> "rejected", is_verified |-> 0, is_listed |-> 0])
            /\ verification_requests' = UpdateRow(verification_requests,
                   [admin_approved |-> 0, status |-> "rejected",
                    final_verdict |-> "rejected"])
            /\ property_logs' = "admin_rejected"
            /\ Reply("rejected")
    /\ UNCHANGED <<files, legal_documents>>

\* a marketplace query that trusts the verified and listed flags alone
get_verified_properties_unapproved(row) ==
    row.exists /\ row.is_verified = 1 /\ row.is_listed = 1

\* the WHERE clause of GET /properties/verified without the optional filters
get_verified_properties(row) ==
    row.exists /\ row.is_verified = 1 /\ row.is_listed = 1 /\ row.admin_approved = 1

\* GET /properties/verified: the number of rows of the marketplace
GetVerifiedProperties ==
    /\ Idle
    /\ handler' = "get_verified_properties"
    /\ pc' = "done"
    /\ response' = [raised |-> None,
                    count |-> IF get_verified_properties(properties) THEN 1 ELSE 0]
    /\ UNCHANGED Locals
    /\ UNCHANGED <<files, properties, verification_requests, property_logs,
                   legal_documents>>

\* a detail view that shows the seller's contact whatever the flags say
PropertyDetailRevealed(row) ==
    [raised |-> None, seller_phone |-> row.seller_phone, address |-> row.address,
     city |-> row.city, state |-> row.state,
     verification_status |-> row.verification_status,
     is_verified |-> row.is_verified # 0]

\* the dict get_property_detail returns: the fields of the seller's contact,
\* the location and the verification
PropertyDetail(row) ==
    [raised |-> None,
     seller_phone |-> IF row.is_verified # 0 THEN row.seller_phone ELSE None,
     address |-> IF row.is_verified # 0 THEN row.address
                 ELSE row.city \o ", " \o row.state,
     city |-> row.city, state |-> row.state,
     verification_status |-> row.verification_status,
     is_verified |-> row.is_verified # 0]

\* GET /properties/{id}
GetPropertyDetail ==
    /\ Idle
    /\ handler' = "get_property_detail"
    /\ IF ~properties.exists
       THEN Fail("HTTPException 404")
       ELSE pc' = "done" /\ response' = PropertyDetail(properties) /\ UNCHANGED Locals
    /\ UNCHANGED <<files, properties, verification_requests, property_logs,
                   legal_documents>>

DOCUMENT_TYPES == {"patta", "sale_deed", "ec", "khata", "tax_receipt", "other"}

required_docs == {"patta", "sale_deed", "ec", "tax_receipt"}

\* the document_type values a client sends: the known ones and one that is not
DocumentTypeInputs == DOCUMENT_TYPES \cup {"will"}

\* an auto-advance that does not look at the status the property is in
AutoAdvanceAnyStatus(row, existing_docs) ==
    IF required_docs \subseteq existing_docs
    THEN UpdateRow(row, [verification_status |-> "pending_admin_approval"])
    ELSE row

\* lines 1517-1534: with all required documents present a property in
\* 'document_review' moves to 'pending_admin_approval'
AutoAdvance(row, existing_docs) ==
    IF required_docs \subseteq existing_docs /\ row.verification_status = "document_review"
    THEN UpdateRow(row, [verification_status |-> "pending_admin_approval"])
    ELSE row

UploadDocumentsAs(document_type) ==
    IF document_type \notin DOCUMENT_TYPES
    THEN Fail("HTTPException 400") /\ UNCHANGED <<properties, legal_documents>>
    ELSE IF ~properties.exists
    THEN Fail("HTTPException 404") /\ UNCHANGED <<properties, legal_documents>>
    ELSE /\ legal_documents' = legal_documents \cup {document_type}
         /\ properties' = AutoAdvance(properties, legal_documents \cup {document_type})
         /\ pc' = "done"
         /\ response' = [raised |-> None, message |-> "Documents uploaded successfully",
                         document_type |-> document_type]
         /\ UNCHANGED Locals

\* POST /properties/{id}/upload-documents
UploadPropertyDocuments ==
    /\ Idle
    /\ handler' = "upload_property_documents"
    /\ \E document_type \in DocumentTypeInputs : UploadDocumentsAs(document_type)
    /\ UNCHANGED <<files, verification_requests, property_logs>>

InitWorkflow ==
    /\ pc = "ready"
    /\ handler = None
    /\ files = <<>>
    /\ analysed = <<>>
    /\ all_spatial = <<>>
    /\ room_types = <<>>
    /\ per_image_results = <<>>
    /\ calibration_status = FALSE
    /\ fusion = [raised |-> None]
    /\ response = [raised |-> None]
    /\ EmptyDatabase

NextWorkflow ==
    \/ SubmitProperty
    \/ UploadPhotos
    \/ AnalyzePropertyWorkflow
    \/ ConfirmAnalysis
    \/ ProcessPayment
    \/ ScheduleInspection
    \/ CompleteInspection
    \/ ApproveProperty
    \/ RejectProperty
    \/ GetVerifiedProperties
    \/ GetPropertyDetail

SpecWorkflow == InitWorkflow /\ [][NextWorkflow]_vars

\* the calls that move a property through its statuses without photos,
\* together with the upload of documents
NextDocuments ==
    \/ SubmitProperty
    \/ ConfirmAnalysis
    \/ ProcessPayment
    \/ UploadPropertyDocuments
    \/ ScheduleInspection
    \/ CompleteInspection
    \/ ApproveProperty
    \/ RejectProperty

SpecDocuments == InitWorkflow /\ [][NextDocuments]_vars

\* ------------------------------------------------------------------------
\* gemini_verifier.py: the aggregation of the per-image crack verdicts
\* ------------------------------------------------------------------------
MaxPaths == 3

severity_order == [none |-> 0, minor |-> 1, moderate |-> 2, severe |-> 3]

\* the "data" dict of a failed analysis (lines 112-119)
FailedData == [is_real_crack |-> FALSE, severity |-> "unknown"]

\* analyze_crack_with_gemini(path): any exception gives success False with
\* FailedData, otherwise the JSON object of the reply is passed on as it is
analyze_crack_with_gemini(img) ==
    IF img.raises THEN [success |-> FALSE, data |-> FailedData]
    ELSE [success |-> TRUE, data |-> img.data]

\* a step that takes the severity of every analysed image
VerifyStepAnySeverity(acc, img, result) ==
    [images_analyzed |-> acc.images_analyzed + 1,
     has_real_crack |-> acc.has_real_crack
                        \/ (result.success /\ Get(result.data, "is_real_crack", FALSE)),
     max_severity |->
        IF Get(severity_order, Get(result.data, "severity", "none"), 0)
              > Get(severity_order, acc.max_severity, 0)
        THEN Get(result.data, "severity", "none")
        ELSE acc.max_severity]

\* the body of the loop for a path that exists (lines 141-151)
VerifyStep(acc, img, result) ==
    IF result.success /\ Get(result.data, "is_real_crack", FALSE)
    THEN [images_analyzed |-> acc.images_analyzed + 1,
          has_real_crack |-> TRUE,
          max_severity |->
             IF Get(severity_order, Get(result.data, "severity", "none"), 0)
                   > Get(severity_order, acc.max_severity, 0)
             THEN Get(result.data, "severity", "none")
             ELSE acc.max_severity]
    ELSE [acc EXCEPT !.images_analyzed = acc.images_analyzed + 1]

\* for path in image_paths: if os.path.exists(path): ...
RECURSIVE VerifyLoop(_, _)
VerifyLoop(acc, image_paths) ==
    IF image_paths = <<>> THEN acc
    ELSE VerifyLoop(IF Head(image_paths).exists
                    THEN VerifyStep(acc, Head(image_paths),
                                    analyze_crack_with_gemini(Head(image_paths)))
                    ELSE acc,
                    Tail(image_paths))

get_recommendation(has_crack, severity) ==
    IF ~has_crack THEN "No structural issues detected. Property appears to be in good condition."
    ELSE IF severity = "minor"
    THEN "Minor surface cracks detected. Regular maintenance recommended."
    ELSE IF severity = "moderate"
    THEN "Moderate cracks detected. Professional inspection recommended before purchase."
    ELSE IF severity = "severe"
    THEN "Severe structural issues detected. Immediate professional assessment required."
    ELSE "Cracks detected. Further inspection may be needed."

Aggregated(acc) ==
    [raised |-> None, images_analyzed |-> acc.images_analyzed,
     has_real_crack |-> acc.has_real_crack, max_severity |-> acc.max_severity,
     recommendation |-> get_recommendation(acc.has_real_crack, acc.max_severity)]

\* verify_property_images(image_paths) without its detailed_results
verify_property_images(image_paths) ==
    Aggregated(VerifyLoop([images_analyzed |-> 0, has_real_crack |-> FALSE,
                           max_severity |-> "none"], image_paths))

\* the replies of the vision model: a verdict and a severity, one of them
\* possibly left out, the severity possibly a word outside the four
GeminiReplies ==
    {[is_real_crack |-> b, severity |-> v] :
        b \in BOOLEAN, v \in {"none", "minor", "moderate", "severe", "critical"}}
    \cup {[severity |-> "severe"], [is_real_crack |-> TRUE]}

\* a path: missing on disk, failing in the analysis, or analysed with a reply
GeminiPaths ==
    {[exists |-> FALSE, raises |-> FALSE, data |-> [is_real_crack |-> TRUE, severity |-> "severe"]],
     [exists |-> TRUE, raises |-> TRUE, data |-> [is_real_crack |-> TRUE, severity |-> "severe"]]}
    \cup {[exists |-> TRUE, raises |-> FALSE, data |-> d] : d \in GeminiReplies}

VerifyPropertyImages ==
    /\ pc = "ready"
    /\ pc' = "done"
    /\ handler' = "verify_property_images"
    /\ response' = verify_property_images(files)
    /\ UNCHANGED <<files, analysed, all_spatial, room_types, per_image_results,
                   calibration_status, fusion, properties, verification_requests,
                   property_logs, legal_documents>>

InitGemini ==
    /\ pc = "ready"
    /\ handler = None
    /\ files \in SeqsUpTo(GeminiPaths, MaxPaths)
    /\ analysed = <<>>
    /\ all_spatial = <<>>
    /\ room_types = <<>>
    /\ per_image_results = <<>>
    /\ calibration_status = FALSE
    /\ fusion = [raised |-> None]
    /\ response = [raised |-> None]
    /\ EmptyDatabase

NextGemini == VerifyPropertyImages

SpecGemini == InitGemini /\ [][NextGemini]_vars

\* ------------------------------------------------------------------------
\* Properties
\* ------------------------------------------------------------------------
Finished == pc \in {"done", "raised"}

\* the image the i-th collected measurement was taken from
ImageOf(i) == files[analysed[i]]

\* the scale detect_defects settles for an image: the Locator's, else the Estimator's
LocatorScale(img) == find_a4_calibration(img).m_per_px
EstimatorResult(img) == estimate_scale_from_reference_objects(ObjectDetections(img))
ScaleOf(img) ==
    IF LocatorScale(img) # NoneF THEN LocatorScale(img) ELSE EstimatorResult(img).m_per_px

\* a catalog-matching detection whose box is zero on the chosen axis
ZeroAxisReference(det) ==
    /\ FirstMatch(Lower(det.label)) # 0
    /\ ChosenAxisPx(det.bbox) = 0

HasZeroAxisReference(img) ==
    \E k \in 1..Len(ObjectDetections(img)) : ZeroAxisReference(ObjectDetections(img)[k])

\* C1: a catalog-matching detection whose box dimension on the chosen axis is
\* zero is skipped: the estimation raises no division-by-zero error, and the
\* images holding such a box are still measured.
C1_ZeroAxisSkipped ==
    Finished =>
        /\ Get(response, "raised", None) # "ZeroDivisionError"
        /\ \A k \in 1..Len(files) :
              (handler # "analyze_property" /\ HasZeroAxisReference(files[k]))
                 => k \in {analysed[i] : i \in 1..Len(analysed)}

\* the first index of the highest area_confidence (absent counting as 0)
AreaConfidence(m) == Get(m, "area_confidence", Zero)
IsFirstBest(b) ==
    /\ b \in 1..Len(all_spatial)
    /\ \A j \in 1..Len(all_spatial) :
          RLeq(AreaConfidence(all_spatial[j]), AreaConfidence(all_spatial[b]))
    /\ \A j \in 1..(b - 1) :
          RLess(AreaConfidence(all_spatial[j]), AreaConfidence(all_spatial[b]))

\* C2: for a non-empty list the best measurement is the first one of highest
\* area_confidence, and the fused width, height, length, area, estimation
\* method and reference object are exactly that record's values.
C2_FusedIsBestRecord ==
    (pc = "done" /\ all_spatial # <<>>) =>
        /\ IsFirstBest(fusion.best_idx)
        /\ LET best == all_spatial[fusion.best_idx]
           IN  IF handler = "analyze_property"
               THEN /\ fusion.estimated_area = best.area
                    /\ fusion.estimation_method = Get(best, "estimation_method", None)
                    /\ fusion.reference_object = best.reference_object
               ELSE /\ fusion.fused_spatial.width = best.width
                    /\ fusion.fused_spatial.height = best.height
                    /\ fusion.fused_spatial.length = best.length
                    /\ fusion.fused_spatial.area = best.area
                    /\ fusion.fused_spatial.estimation_method
                          = Get(best, "estimation_method", None)
                    /\ fusion.fused_spatial.reference_object = best.reference_object

\* the orders a list of one, two or three measurements can be given in
Reorderings(s) ==
    {[i \in 1..Len(s) |-> s[p[i]]] :
        p \in {q \in [1..Len(s) -> 1..Len(s)] : \A i, j \in 1..Len(s) : q[i] = q[j] => i = j}}

SameFusion(f, g) ==
    /\ f.fused_spatial = g.fused_spatial
    /\ f.best_room_type = g.best_room_type
    /\ f.room_confidence = g.room_confidence

\* C3: the fusion is commutative: the fused measurement, room type and room
\* confidence are the same for every order of the same measurements.
C3_FuserCommutative ==
    (pc = "done" /\ handler = "reconstruct_room") =>
        \A s \in Reorderings(all_spatial) :
            SameFusion(ReconstructRoomFuse(s, SeqMap(RoomTypeEntry, s)), fusion)

RECURSIVE LabelTotal(_, _)
LabelTotal(label, i) ==
    IF i = 0 THEN Zero
    ELSE IF all_spatial[i].room_type = label
         THEN RAdd(all_spatial[i].room_confidence, LabelTotal(label, i - 1))
         ELSE LabelTotal(label, i - 1)

\* C5: the fused room type is a label of highest accumulated room_confidence,
\* and the fused room confidence is that total divided by the number of
\* images of the batch.
C5_RoomVote ==
    (pc = "done" /\ all_spatial # <<>>) =>
        LET n == Len(all_spatial)
            total == LabelTotal(fusion.best_room_type, n)
        IN  /\ \E i \in 1..n : all_spatial[i].room_type = fusion.best_room_type
            /\ \A i \in 1..n : RLeq(LabelTotal(all_spatial[i].room_type, n), total)
            /\ RMul(fusion.room_confidence, R(n)) = total

\* two images, one voting Bedroom with 80 and one Kitchen with 30: Bedroom, 80 / 2
C5_Witness ==
    /\ pc = "done"
    /\ Len(all_spatial) = 2
    /\ all_spatial[1].room_type = "Bedroom" /\ all_spatial[1].room_confidence = R(80)
    /\ all_spatial[2].room_type = "Kitchen" /\ all_spatial[2].room_confidence = R(30)
    /\ fusion.best_room_type = "Bedroom"
    /\ fusion.room_confidence = R(40)

\* C6: on an empty list the fusion raises nothing and returns the defaults:
\* measurement fields zero or absent, room type "unknown", room confidence 0,
\* overall confidence 0, confirmation needed.
C6_EmptyDefaults ==
    (pc # "measured" /\ pc # "ready" /\ all_spatial = <<>> /\ files = <<>>) =>
        /\ pc = "done"
        /\ fusion.best_room_type = "unknown"
        /\ fusion.room_confidence = Zero
        /\ IF handler = "analyze_property"
           THEN /\ fusion.estimated_area = Zero
                /\ fusion.area_confidence = Zero
                /\ fusion.reference_object = None
                /\ response.needs_confirmation
           ELSE /\ \A k \in DOMAIN fusion.fused_spatial : fusion.fused_spatial[k] = Zero
                /\ fusion.overall_confidence = Zero
                /\ response.needs_user_confirmation

\* C7: every measurement carries the estimation_method of its scale source:
\* calibration_target from the Locator, reference_object from the Estimator,
\* none without a scale.
C7_MethodTagged ==
    pc = "done" =>
        \A i \in 1..Len(all_spatial) :
            Get(all_spatial[i], "estimation_method", None)
               = (IF ~ImageOf(i).readable THEN "none"
                  ELSE IF LocatorScale(ImageOf(i)) # NoneF THEN "calibration_target"
                  ELSE IF ScaleOf(ImageOf(i)) # NoneF THEN "reference_object"
                  ELSE "none")

\* C8: with a scale and at least one crack box (of zero pixel area too) the
\* measurement is the crack's: area = sum(w*h) * scale^2, length = largest
\* side * scale, width = (area_px / largest side) * scale or 0, height = width.
C8_CrackPath ==
    pc = "done" =>
        \A i \in 1..Len(all_spatial) :
            LET img == ImageOf(i)
                m == ScaleOf(img)
                total == TotalCrackPixelArea(img.cracks)
                side == MaxCrackDimPx(img.cracks)
                width == IF side > 0 THEN RMul(Rat(total, side), m) ELSE Zero
            IN  (img.readable /\ m # NoneF /\ img.cracks # <<>>) =>
                   /\ all_spatial[i].area = RMul(R(total), RMul(m, m))
                   /\ all_spatial[i].length = RMul(R(side), m)
                   /\ all_spatial[i].width = width
                   /\ all_spatial[i].height = width

\* C9: with a scale and no crack box the measurement is the floor estimate:
\* area = 0.6 * W * H * scale^2, width = W * scale, length = H * scale * 0.8,
\* height = 2.7.
C9_FloorPath ==
    pc = "done" =>
        \A i \in 1..Len(all_spatial) :
            LET img == ImageOf(i)
                m == ScaleOf(img)
            IN  (img.readable /\ m # NoneF /\ img.cracks = <<>>) =>
                   /\ all_spatial[i].area = Rat(6 * img.w * img.h * m.n * m.n, 10 * m.d * m.d)
                   /\ all_spatial[i].width = Rat(img.w * m.n, m.d)
                   /\ all_spatial[i].length = Rat(8 * img.h * m.n, 10 * m.d)
                   /\ all_spatial[i].height = Rat(27, 10)

\* scale 0.001 m/px on 1000 x 800 px without cracks: 0.48 m2, 1.0 m, 0.64 m, 2.7 m
C9_Witness ==
    /\ pc = "done"
    /\ Len(all_spatial) = 1
    /\ files[1].w = 1000 /\ files[1].h = 800 /\ files[1].cracks = <<>>
    /\ ScaleOf(files[1]) = Rat(1, 1000)
    /\ all_spatial[1].area = Rat(48, 100)
    /\ all_spatial[1].width = R(1)
    /\ all_spatial[1].length = Rat(64, 100)
    /\ all_spatial[1].height = Rat(27, 10)

\* C10: without a scale, crack boxes give the measurement in pixels (area =
\* sum(w*h), length = largest side, width = area / largest side or 0), and
\* no crack boxes give width, height, length and area zero.
C10_PixelPath ==
    pc = "done" =>
        \A i \in 1..Len(all_spatial) :
            LET img == ImageOf(i)
                total == TotalCrackPixelArea(img.cracks)
                side == MaxCrackDimPx(img.cracks)
            IN  (img.readable /\ ScaleOf(img) = NoneF) =>
                   IF img.cracks # <<>>
                   THEN /\ all_spatial[i].area = R(total)
                        /\ all_spatial[i].length = R(side)
                        /\ all_spatial[i].width
                              = (IF side > 0 THEN Rat(total, side) ELSE Zero)
                   ELSE /\ all_spatial[i].area = Zero
                        /\ all_spatial[i].length = Zero
                        /\ all_spatial[i].width = Zero
                        /\ all_spatial[i].height = Zero

\* the five labels of the classifier, as detect_defects titles them
RoomLabels == {RoomTypeTitle(ROOM_TYPE_LABELS[k]) : k \in 1..Len(ROOM_TYPE_LABELS)}

\* C11: the room_confidence of every measurement is the classifier's
\* probability unchanged (neither rescaled nor rounded) and lies in [0,1];
\* its room_type is one of the five labels, or "unknown" for an unreadable image.
C11_RoomConfidenceCarried ==
    pc = "done" =>
        \A i \in 1..Len(all_spatial) :
            /\ all_spatial[i].room_confidence = ImageOf(i).prob
            /\ RLeq(Zero, all_spatial[i].room_confidence)
            /\ RLeq(all_spatial[i].room_confidence, R(1))
            /\ all_spatial[i].room_type
                  \in (IF ImageOf(i).readable THEN RoomLabels ELSE {"unknown"})

\* the scale a measurement was taken with, read back from it: the crack
\* length over the largest crack side, or the floor width over the image width
MeasuredScale(i) ==
    IF TotalCrackPixelArea(ImageOf(i).cracks) > 0
    THEN RDiv(all_spatial[i].length, R(MaxCrackDimPx(ImageOf(i).cracks)))
    ELSE RDiv(all_spatial[i].width, R(ImageOf(i).w))

\* the catalog entry a detection matches (0 when none) and its candidate
\* scale by the orientation rule
CatalogIndex(det) == FirstMatch(Lower(det.label))
OrientedScale(det) ==
    IF det.bbox[3] > det.bbox[4]
    THEN RDiv(REFERENCE_OBJECTS[CatalogIndex(det)].width, R(det.bbox[3]))
    ELSE RDiv(REFERENCE_OBJECTS[CatalogIndex(det)].height, R(det.bbox[4]))

\* the measurements whose scale came from the Estimator
FromEstimator(i) ==
    /\ ImageOf(i).readable
    /\ LocatorScale(ImageOf(i)) = NoneF
    /\ all_spatial[i].reference_object # None

\* C12: the scale of a chosen reference is its catalog width over the box
\* width when the box is wider than tall, and its catalog height over the box
\* height when the box is at least as tall as wide.
C12_OrientationRule ==
    pc = "done" =>
        \A i \in 1..Len(all_spatial) :
            FromEstimator(i) =>
                \E k \in 1..Len(ObjectDetections(ImageOf(i))) :
                    LET det == ObjectDetections(ImageOf(i))[k]
                    IN  /\ CatalogIndex(det) # 0
                        /\ REFERENCE_OBJECTS[CatalogIndex(det)].name
                              = all_spatial[i].reference_object
                        /\ MeasuredScale(i) = OrientedScale(det)

\* a door box of 300 x 700 px: scale 2.1 / 700
C12_Witness ==
    /\ pc = "done"
    /\ Len(all_spatial) = 1
    /\ FromEstimator(1)
    /\ Len(files[1].objects) = 1
    /\ files[1].objects[1].label = "Door"
    /\ ObjectDetections(files[1])[1].bbox[3] = 300
    /\ ObjectDetections(files[1])[1].bbox[4] = 700
    /\ all_spatial[1].reference_object = "door"
    /\ MeasuredScale(1) = Rat(21, 7000)

\* the matching detection the selection rule names: lowest priority rank,
\* the first in list order among those of that rank
Matching(dets) == {k \in 1..Len(dets) : CatalogIndex(dets[k]) # 0}
RankOf(det) == REFERENCE_OBJECTS[CatalogIndex(det)].priority
IsSelected(dets, k) ==
    /\ k \in Matching(dets)
    /\ \A j \in Matching(dets) : RankOf(dets[k]) <= RankOf(dets[j])
    /\ \A j \in Matching(dets) : j < k => RankOf(dets[k]) < RankOf(dets[j])

\* C13: the Estimator returns the scale and the catalog key of the matching
\* detection of lowest priority rank, the first in list order when several
\* share that rank.
C13_LowestRankFirst ==
    pc = "done" =>
        \A i \in 1..Len(all_spatial) :
            (ImageOf(i).readable /\ LocatorScale(ImageOf(i)) = NoneF) =>
                LET dets == ObjectDetections(ImageOf(i))
                IN  IF Matching(dets) = {}
                    THEN all_spatial[i].reference_object = None
                    ELSE \E k \in Matching(dets) :
                            /\ IsSelected(dets, k)
                            /\ all_spatial[i].reference_object
                                  = REFERENCE_OBJECTS[CatalogIndex(dets[k])].name
                            /\ MeasuredScale(i) = OrientedScale(dets[k])

\* a bed and a door, both of rank 1, the bed first: the bed is returned
C13_Witness ==
    /\ pc = "done"
    /\ Len(all_spatial) = 1
    /\ FromEstimator(1)
    /\ Len(files[1].objects) = 2
    /\ files[1].objects[1].label = "bed"
    /\ files[1].objects[2].label = "Door"
    /\ all_spatial[1].reference_object = "bed"
    /\ MeasuredScale(1) = Rat(19, 380)

\* the Estimator has returned for the detections of files[1]
Estimated == pc = "done" /\ handler = "estimate_scale_from_reference_objects"

\* C14: with a reference of priority rank p the Estimator's confidence is
\* max(0.5, 1.0 - (p - 1) * 0.1), within [0.5, 1.0]; when no detection matches
\* the catalog it returns (absent, absent, 0.0).
C14_ReferenceConfidence ==
    Estimated =>
        LET dets == ObjectDetections(files[1])
        IN  IF Matching(dets) = {}
            THEN /\ response.m_per_px = NoneF
                 /\ response.reference = None
                 /\ response.confidence = Zero
            ELSE /\ \E k \in Matching(dets) :
                       /\ IsSelected(dets, k)
                       /\ response.confidence
                             = (IF RankOf(dets[k]) >= 6 THEN Rat(1, 2)
                                ELSE Rat(11 - RankOf(dets[k]), 10))
                 /\ RLeq(Rat(1, 2), response.confidence)
                 /\ RLeq(response.confidence, R(1))

\* a chair (rank 4) as the only match: confidence 0.7
C14_Witness ==
    /\ Estimated
    /\ Len(files[1].objects) = 2
    /\ files[1].objects[1].label = "person"
    /\ files[1].objects[2].label = "chair"
    /\ response.reference = "chair"
    /\ response.confidence = Rat(7, 10)

\* no detection matches: (absent, absent, 0.0)
C14_WitnessNoMatch ==
    /\ Estimated
    /\ Len(files[1].objects) = 1
    /\ files[1].objects[1].label = "person"
    /\ response.m_per_px = NoneF
    /\ response.confidence = Zero

\* C15: the Estimator is invoked exactly when the Locator returned no target:
\* with a target the measurement is taken with the Locator's scale and has no
\* reference object, whatever was detected, and nothing the Estimator raises
\* can leave detect_defects; without a target the matching detections decide
\* the reference object.
C15_EstimatorFallbackOnly ==
    /\ pc = "raised" =>
          \E k \in 1..Len(files) : files[k].readable /\ LocatorScale(files[k]) = NoneF
    /\ pc = "done" =>
          \A i \in 1..Len(all_spatial) :
              ImageOf(i).readable =>
                  IF LocatorScale(ImageOf(i)) # NoneF
                  THEN /\ all_spatial[i].reference_object = None
                       /\ MeasuredScale(i) = LocatorScale(ImageOf(i))
                  ELSE (all_spatial[i].reference_object = None)
                          <=> (Matching(ObjectDetections(ImageOf(i))) = {})

\* an A4 sheet and a door in one image: the sheet's scale, no reference object
C15_Witness ==
    /\ pc = "done"
    /\ Len(all_spatial) = 1
    /\ files[1].readable
    /\ LocatorScale(files[1]) = Rat(1, 1000)
    /\ Matching(ObjectDetections(files[1])) # {}
    /\ all_spatial[1].reference_object = None
    /\ MeasuredScale(1) = Rat(1, 1000)

\* the Locator has returned for files[1]
LocatorReturned == pc = "done" /\ handler = "find_a4_calibration"

\* the k-th candidate scores highest and is the first to do so
IsFirstBestCandidate(cands, k) ==
    /\ \A j \in 1..Len(cands) : cands[j].score <= cands[k].score
    /\ \A j \in 1..(k - 1) : cands[j].score < cands[k].score

\* C16: the Locator returns a scale and a box, or neither; with candidates it
\* returns the first candidate of highest score, its box and the positive
\* scale 0.297 / (longer side of its rectangle); without candidates it
\* returns (absent, absent) and raises nothing.
C16_LocatorContract ==
    /\ handler = "find_a4_calibration" => pc # "raised"
    /\ LocatorReturned =>
          /\ (response.m_per_px = NoneF) <=> (response.bbox = NoneL)
          /\ LET cands == Candidates(files[1])
             IN  IF cands = <<>>
                 THEN response.m_per_px = NoneF /\ response.bbox = NoneL
                 ELSE \E k \in 1..Len(cands) :
                         /\ IsFirstBestCandidate(cands, k)
                         /\ response.bbox = cands[k].contour.bbox
                         /\ 1000 * response.m_per_px.n
                               * (IF cands[k].contour.rw >= cands[k].contour.rh
                                  THEN cands[k].contour.rw ELSE cands[k].contour.rh)
                               = 297 * response.m_per_px.d
                         /\ RPos(response.m_per_px)

\* two sheets of equal score, 420 x 300 first and 490 x 350 second: the scale
\* is 0.297 / 420
C16_Witness ==
    /\ LocatorReturned
    /\ files[1].contours = <<SheetA, SheetB>>
    /\ Len(Candidates(files[1])) = 2
    /\ Candidates(files[1])[1].score = Candidates(files[1])[2].score
    /\ response.m_per_px = Rat(297, 420000)
    /\ response.bbox = SheetA.bbox

\* the gates of the primary pass as bands: area within [0.3%, 30%] of the
\* image, 4 to 6 vertices, non-zero short side, side ratio within [1.2, 1.7],
\* lightness at least 140, saturation at most 40, solidity at least 0.75
InBand(lo, x, hi) == RLeq(lo, x) /\ RLeq(x, hi)
PassesEveryGate(c, img) ==
    /\ InBand(Rat(3, 1000), Rat(c.area, img.w * img.h), Rat(3, 10))
    /\ c.vertices \in 4..6
    /\ c.rw > 0 /\ c.rh > 0
    /\ InBand(Rat(12, 10),
              IF c.rw >= c.rh THEN Rat(c.rw, c.rh) ELSE Rat(c.rh, c.rw),
              Rat(17, 10))
    /\ c.mean_val >= 140
    /\ c.mean_sat <= 40
    /\ c.hull_area > 0 /\ RLeq(Rat(3, 4), Rat(c.area, c.hull_area))

PassingContours(img) ==
    {k \in 1..Len(img.contours) : PassesEveryGate(img.contours[k], img)}

\* C17: a contour is a candidate of the primary pass if and only if it passes
\* every gate: the Locator's target is a contour that passes them all when
\* there is one, and with none (and nothing in the >200 mask) there is no target.
C17_PrimaryGates ==
    LocatorReturned =>
        /\ PassingContours(files[1]) # {} =>
              \E k \in PassingContours(files[1]) :
                  response.bbox = files[1].contours[k].bbox
        /\ (PassingContours(files[1]) = {} /\ files[1].bright_contours = <<>>) =>
              response.m_per_px = NoneF
        /\ PassingContours(files[1]) # {} =>
              Len(Candidates(files[1])) = Cardinality(PassingContours(files[1]))

\* a contour of saturation 41 before one on every inclusive limit: the
\* second is the target
C17_Witness ==
    /\ LocatorReturned
    /\ files[1].contours = <<Coloured, SheetEdge>>
    /\ files[1].bright_contours = <<>>
    /\ PassingContours(files[1]) = {2}
    /\ response.bbox = SheetEdge.bbox
    /\ response.m_per_px = Rat(297, 340000)

\* at least 4 vertices and a side ratio within [1.2, 1.7]
PolygonInRatioBand(c) ==
    /\ c.vertices >= 4
    /\ c.rw > 0 /\ c.rh > 0
    /\ InBand(Rat(12, 10),
              IF c.rw >= c.rh THEN Rat(c.rw, c.rh) ELSE Rat(c.rh, c.rw),
              Rat(17, 10))

\* more than 0.3% of the image area
AboveMinArea(c, img) == RLess(Rat(3, 1000), Rat(c.area, img.w * img.h))

\* the target is the first contour of the >200 mask among `accepted`, of
\* score 0.5, and there is no target when `accepted` is empty
FallbackTargetIsFirstOf(accepted) ==
    IF accepted = {}
    THEN response.m_per_px = NoneF
    ELSE /\ \E k \in accepted :
               /\ \A j \in accepted : k <= j
               /\ response.bbox = files[1].bright_contours[k].bbox
         /\ Len(Candidates(files[1])) = Cardinality(accepted)
         /\ \A k \in 1..Len(Candidates(files[1])) :
               2 * Candidates(files[1])[k].score = 1000000

\* the fallback pass runs only when the primary pass produced no candidate
FallbackOnlyWithoutPrimary ==
    PassingContours(files[1]) # {} =>
        \E k \in PassingContours(files[1]) : response.bbox = files[1].contours[k].bbox

\* C18 as stated: the fallback pass runs only when the primary pass produced
\* no candidate, and then a contour of the >200 mask is a candidate of score
\* 0.5 requiring only at least 4 vertices and a side ratio within [1.2, 1.7].
C18_FallbackAsStated ==
    LocatorReturned =>
        /\ FallbackOnlyWithoutPrimary
        /\ PassingContours(files[1]) = {} =>
              FallbackTargetIsFirstOf(
                  {k \in 1..Len(files[1].bright_contours) :
                      PolygonInRatioBand(files[1].bright_contours[k])})

\* C18 (amended): the fallback pass runs only when the primary pass produced
\* no candidate, and then a contour of the >200 mask is a candidate of score
\* 0.5 exactly when its area is above 0.3% of the image area, it has at least
\* 4 vertices and its side ratio is within [1.2, 1.7].
C18_FallbackPass ==
    LocatorReturned =>
        /\ FallbackOnlyWithoutPrimary
        /\ PassingContours(files[1]) = {} =>
              FallbackTargetIsFirstOf(
                  {k \in 1..Len(files[1].bright_contours) :
                      /\ PolygonInRatioBand(files[1].bright_contours[k])
                      /\ AboveMinArea(files[1].bright_contours[k], files[1])})

\* no primary candidate, a speck and then a glare patch in the >200 mask: the
\* glare patch is the target, 0.297 / 135
C18_Witness ==
    /\ LocatorReturned
    /\ PassingContours(files[1]) = {}
    /\ files[1].bright_contours = <<GlareSpeck, Glare>>
    /\ response.bbox = Glare.bbox
    /\ response.m_per_px = Rat(297, 135000)

\* the measurement of an image that cannot be read
ZeroMeasurement(m) ==
    /\ m.width = Zero /\ m.height = Zero /\ m.length = Zero /\ m.area = Zero
    /\ m.room_type = "unknown"
    /\ m.room_confidence = Zero

\* C19: an unreadable or missing image raises nothing and is measured as all
\* zero, "unknown", 0, uncalibrated, size [0, 0]; in a batch it contributes
\* that measurement to the fusion, counted among the images, and the other
\* images are analysed and fused as well.
C19_UnreadableCounted ==
    /\ pc = "raised" => \E k \in 1..Len(files) : files[k].readable
    /\ pc = "done" =>
          /\ Len(all_spatial) = Len(files)
          /\ \A k \in 1..Len(files) :
                \E i \in 1..Len(analysed) :
                    /\ analysed[i] = k
                    /\ ~files[k].readable =>
                          /\ ZeroMeasurement(all_spatial[i])
                          /\ detect_defects(files[k]).raised = None
                          /\ ~detect_defects(files[k]).is_calibrated
                          /\ detect_defects(files[k]).size = <<0, 0>>

\* the property is one of the rows the marketplace returns
InMarketplace == get_verified_properties(properties)

\* the latest admin decision on the property is an approval
ApprovedSinceLastRejection == property_logs = "admin_approved"

\* the listing just returned the property
ListingReturnedProperty ==
    handler = "get_verified_properties" /\ pc = "done" /\ response.count = 1

\* a call of confirm-analysis or complete-inspection does not put a property
\* into the marketplace that was not in it
SellerStepsNeverList ==
    (ConfirmAnalysis \/ CompleteInspection) =>
        (get_verified_properties(properties') => InMarketplace)

\* C20: marketplace safety. After any sequence of workflow calls the
\* marketplace listing returns the property only if an admin has approved it
\* and no admin rejection came after that approval; a call of
\* confirm-analysis or of complete-inspection never makes a property visible.
C20_MarketplaceSafety ==
    /\ [](InMarketplace => ApprovedSinceLastRejection)
    /\ [](ListingReturnedProperty => ApprovedSinceLastRejection)
    /\ [][SellerStepsNeverList]_vars

\* the listing returns a property an admin approved
C20_Witness == ListingReturnedProperty /\ ApprovedSinceLastRejection

\* confirm-analysis has set the verified and listed flags of a basic-tier
\* property that no admin approved: the listing does not show it
C20_WitnessConfirmed ==
    /\ handler = "confirm_analysis"
    /\ properties.is_verified = 1 /\ properties.is_listed = 1
    /\ ~InMarketplace

\* an approved property after a later rejection: out of the marketplace
C20_WitnessRejected ==
    /\ property_logs = "admin_rejected"
    /\ handler = "get_verified_properties" /\ response.count = 0
    /\ properties.admin_reviewed = 1

\* the end of the workflow: the property is verified and listed
VerifiedAndListed ==
    /\ properties.exists
    /\ properties.verification_status = "verified"
    /\ properties.is_verified = 1 /\ properties.is_listed = 1

\* analyze_property has stored a result for the property
AnalysisCompleted == properties.ai_room_type # None

\* process_payment has recorded the payment of the request
PaymentCompleted ==
    verification_requests.exists /\ verification_requests.payment_status = "completed"

\* C21: workflow ordering. A property is verified and listed only after its
\* submission, a completed AI analysis, a completed payment and an admin
\* approval; no endpoint moves a property to 'verified' while the analysis
\* or the payment has not completed.
C21_WorkflowOrdering ==
    VerifiedAndListed =>
        AnalysisCompleted /\ PaymentCompleted /\ properties.admin_approved = 1

\* get_property_detail has just answered for the property
DetailReturned == handler = "get_property_detail" /\ pc = "done"

\* the answer shows the seller's phone number and street address
ContactShown ==
    response.seller_phone = SellerPhone /\ response.address = SellerAddress

\* the answer has no phone number and "city, state" for the address
ContactHidden ==
    response.seller_phone = None /\ response.address = "Chennai, Tamil Nadu"

\* C22: seller privacy. get_property_detail returns the seller's phone
\* number and street address only while is_verified is set; otherwise the
\* phone is absent and the address is "city, state". After an admin
\* rejection they are hidden until a later verification.
C22_SellerPrivacy ==
    DetailReturned =>
        /\ properties.is_verified = 1 => ContactShown
        /\ properties.is_verified = 0 => ContactHidden
        /\ (property_logs = "admin_rejected" /\ properties.verification_status = "rejected")
              => ContactHidden

\* a verified property: the contact is shown
C22_Witness == DetailReturned /\ properties.is_verified = 1 /\ ContactShown

\* a property rejected by the admin: the contact is hidden
C22_WitnessRejected ==
    /\ DetailReturned /\ ContactHidden
    /\ property_logs = "admin_rejected" /\ properties.verification_status = "rejected"

\* the reference object that comes with the scale: the Estimator's when the
\* Locator found no target
ReferenceOf(img) ==
    IF LocatorScale(img) # NoneF THEN None ELSE EstimatorResult(img).reference

\* two readable images give the Synthesizer the same inputs: scale (with the
\* reference object it was taken from), crack boxes, image dimensions and
\* room classification
SameSynthesizerInputs(a, b) ==
    /\ a.readable /\ b.readable
    /\ ScaleOf(a) = ScaleOf(b) /\ ReferenceOf(a) = ReferenceOf(b)
    /\ a.cracks = b.cracks
    /\ a.w = b.w /\ a.h = b.h
    /\ a.best_idx = b.best_idx /\ a.prob = b.prob

AllRequiredUploaded == {"patta", "sale_deed", "ec", "tax_receipt"} \subseteq legal_documents'

\* what a call of upload_property_documents does to verification_status
DocumentStep ==
    UploadPropertyDocuments =>
        IF pc' = "done" /\ AllRequiredUploaded
           /\ properties.verification_status = "document_review"
        THEN properties'.verification_status = "pending_admin_approval"
        ELSE properties'.verification_status = properties.verification_status

\* C24: document auto-advance. When all four required document types have
\* been uploaded, upload_property_documents moves the property from
\* 'document_review' to 'pending_admin_approval'; an upload that leaves the
\* required set incomplete, or that finds the property in another status,
\* leaves verification_status unchanged.
C24_DocumentAutoAdvance == [][DocumentStep]_vars

\* the last required document has moved the property on
C24_Witness ==
    /\ handler = "upload_property_documents" /\ pc = "done"
    /\ {"patta", "sale_deed", "ec", "tax_receipt"} \subseteq legal_documents
    /\ properties.verification_status = "pending_admin_approval"

\* all required documents are on file, yet the property was not in
\* 'document_review' when the last one came: the status stays
C24_WitnessOtherStatus ==
    /\ handler = "upload_property_documents" /\ pc = "done"
    /\ {"patta", "sale_deed", "ec", "tax_receipt"} \subseteq legal_documents
    /\ properties.verification_status = "awaiting_payment"

\* the positions of the detection list that hold an entry flagged with key
Flagged(detections, key) ==
    {k \in 1..Len(detections) : Get(detections[k], key, FALSE)}

\* the calibration-target entries of the list carry the box the Locator found
TargetBoxIn(detections, img) ==
    \A k \in Flagged(detections, "isCalibration") :
        detections[k].bbox = find_a4_calibration(img).bbox

\* one readable image went through detect_defects and its result was kept
ReadableImageAnalysed ==
    pc = "done" /\ Len(per_image_results) = 1 /\ ImageOf(1).readable

\* C25: per-image output of detect_defects for a readable image.
\* is_calibrated is true exactly when the Locator or the Estimator gave a
\* scale; the detection list has exactly one room-type entry, and a
\* calibration-target entry (with the target's box) exactly when the
\* Locator found a target; the size is [height_px, width_px].
C25_PerImageOutput ==
    ReadableImageAnalysed =>
        /\ calibration_status <=> ScaleOf(ImageOf(1)) # NoneF
        /\ Cardinality(Flagged(per_image_results[1].detections, "isRoomType")) = 1
        /\ Cardinality(Flagged(per_image_results[1].detections, "isCalibration"))
              = (IF LocatorScale(ImageOf(1)) # NoneF THEN 1 ELSE 0)
        /\ TargetBoxIn(per_image_results[1].detections, ImageOf(1))
        /\ per_image_results[1].img_size = <<ImageOf(1).h, ImageOf(1).w>>

\* an image calibrated by a reference object: calibrated, no target entry
C25_Witness ==
    /\ ReadableImageAnalysed
    /\ calibration_status /\ LocatorScale(ImageOf(1)) = NoneF
    /\ Flagged(per_image_results[1].detections, "isCalibration") = {}
    /\ ImageOf(1).h # ImageOf(1).w

\* an image calibrated by a target: the entry with the target's box
C25_WitnessTarget ==
    /\ ReadableImageAnalysed
    /\ LocatorScale(ImageOf(1)) # NoneF
    /\ Flagged(per_image_results[1].detections, "isCalibration") # {}

\* verify_property_images has returned
Verified == handler = "verify_property_images" /\ pc = "done"

\* the paths that exist, were analysed without failure and reported a real crack
RealCrackPaths ==
    {k \in 1..Len(files) :
        /\ files[k].exists /\ ~files[k].raises
        /\ "is_real_crack" \in DOMAIN files[k].data /\ files[k].data.is_real_crack}

\* the rank of the severity a path reported: none 0, minor 1, moderate 2,
\* severe 3, anything else (or nothing) 0
SeverityRank(k) ==
    IF "severity" \notin DOMAIN files[k].data THEN 0
    ELSE CASE files[k].data.severity = "minor" -> 1
           [] files[k].data.severity = "moderate" -> 2
           [] files[k].data.severity = "severe" -> 3
           [] OTHER -> 0

RankOfName(severity) ==
    CASE severity = "none" -> 0 [] severity = "minor" -> 1
      [] severity = "moderate" -> 2 [] severity = "severe" -> 3

\* C26: aggregation of verify_property_images. has_real_crack is true
\* exactly when an existing image was analysed successfully and reported a
\* real crack; max_severity is the highest severity (none < minor <
\* moderate < severe, other values as none) among those images, so a
\* max_severity other than "none" implies has_real_crack; images_analyzed
\* counts the paths that exist.
C26_GeminiAggregation ==
    Verified =>
        /\ response.has_real_crack <=> RealCrackPaths # {}
        /\ response.max_severity \in {"none", "minor", "moderate", "severe"}
        /\ \A k \in RealCrackPaths : SeverityRank(k) <= RankOfName(response.max_severity)
        /\ (response.max_severity # "none" =>
               \E k \in RealCrackPaths :
                   Get(files[k].data, "severity", "none") = response.max_severity)
        /\ (response.max_severity # "none" => response.has_real_crack)
        /\ response.images_analyzed = Cardinality({k \in 1..Len(files) : files[k].exists})

\* a real crack of moderate severity beside a severe reply that reports no
\* real crack and a path that does not exist
C26_Witness ==
    /\ Verified /\ response.has_real_crack /\ response.max_severity = "moderate"
    /\ \E k \in 1..Len(files) :
          /\ files[k].exists /\ ~files[k].raises /\ k \notin RealCrackPaths
          /\ "severity" \in DOMAIN files[k].data /\ files[k].data.severity = "severe"
    /\ response.images_analyzed < Len(files)

\* reconstruct_room has answered for a batch with at least one file
RoomReconstructed == handler = "reconstruct_room" /\ pc = "done" /\ files # <<>>

\* C27: detect_defects puts no area_confidence into its measurement and
\* stores room_confidence as a percentage of at most 100, so for every
\* non-empty batch fused by reconstruct_room the overall_confidence is at
\* most 50 and needs_user_confirmation is true.
C27_AlwaysNeedsConfirmation ==
    RoomReconstructed =>
        /\ \A i \in 1..Len(all_spatial) :
              /\ "area_confidence" \notin DOMAIN all_spatial[i]
              /\ RLeq(all_spatial[i].room_confidence, R(100))
        /\ RLeq(fusion.overall_confidence, R(50))
        /\ RLeq(response.overall_confidence, R(50))
        /\ response.needs_user_confirmation

\* two calibrated images of the same room type, classified with more than
\* 80 percent: the overall confidence is above 40 and still needs confirmation
C27_Witness ==
    /\ RoomReconstructed /\ Len(all_spatial) = 2 /\ calibration_status
    /\ RLess(R(40), response.overall_confidence)
    /\ response.needs_user_confirmation

\* reconstruct_room or analyze_property has fused at least one measurement
BatchFused ==
    /\ handler \in {"reconstruct_room", "analyze_property"}
    /\ pc = "done" /\ all_spatial # <<>>

\* the fields of the response that are copied from the best measurement
BestIsFirstMeasurement ==
    IF handler = "reconstruct_room"
    THEN /\ response.spatial_data.width = all_spatial[1].width
         /\ response.spatial_data.length = all_spatial[1].length
         /\ response.spatial_data.area = Round2(all_spatial[1].area)
         /\ response.spatial_data.reference_object = all_spatial[1].reference_object
    ELSE /\ response.estimated_area = Round2(all_spatial[1].area)
         /\ response.reference_object = all_spatial[1].reference_object

\* C28: every measurement of detect_defects lacks area_confidence, so the
\* best measurement reconstruct_room and analyze_property select is the
\* first analysed image's, whichever image was calibrated by a target, by
\* a reference object, or not at all.
C28_BestIsFirst ==
    BatchFused => fusion.best_idx = 1 /\ BestIsFirstMeasurement

\* the first image has no scale, the second is calibrated by a target: the
\* first is the best
C28_Witness ==
    /\ BatchFused /\ Len(all_spatial) = 2
    /\ ScaleOf(ImageOf(1)) = NoneF
    /\ LocatorScale(ImageOf(2)) # NoneF
    /\ fusion.best_idx = 1
    /\ all_spatial[1].area # all_spatial[2].area

\* the first image has no scale, the second takes it from a reference object
C28_WitnessReference ==
    /\ BatchFused /\ Len(all_spatial) = 2
    /\ ScaleOf(ImageOf(1)) = NoneF
    /\ all_spatial[2].reference_object # None
    /\ fusion.best_idx = 1

\* a workflow endpoint has completed (answered or failed)
CallCompleted == handler # None /\ Finished

\* C29: after every workflow endpoint call the status of the property in
\* the table properties equals the status of its verification request; no
\* endpoint updates one without the other.
C29_StatusInSync ==
    (CallCompleted /\ properties.exists /\ verification_requests.exists) =>
        properties.verification_status = verification_requests.status

\* C30: submit_property is atomic. Either the property row and its
\* verification request are both persisted and success is returned, or an
\* error is returned and neither is persisted; a property row never exists
\* without a verification request.
C30_SubmitAtomic ==
    /\ properties.exists => verification_requests.exists
    /\ (handler = "submit_property" /\ pc = "raised") =>
          ~properties.exists /\ ~verification_requests.exists
    /\ (handler = "submit_property" /\ pc = "done") =>
          properties.exists /\ verification_requests.exists

====
